---- MODULE Spec2Model ----
(***************************************************************************)
(* A model of the Solana threshold-signature HTTP service: the two-round   *)
(* aggregated Schnorr signing protocol (round 1, round 2, aggregation),    *)
(* the five transaction templates and the request handlers of main.rs.     *)
(*                                                                         *)
(* The server keeps no state between requests.  The state of the model is  *)
(* therefore the state of its environment: what the callers hold (round-1  *)
(* outputs, partial signatures), what the chain holds, what was broadcast, *)
(* and the record of the last request served.                              *)
(***************************************************************************)
EXTENDS Integers, Sequences, FiniteSets, TLC

(***************************************************************************)
(* Bounds of the model.                                                    *)
(***************************************************************************)
\* Number of keypairs in the universe, and the longest key list of a request.
MaxN == 2
\* Number of distinct values the round-1 randomness source can draw.
MaxNonce == 2

(***************************************************************************)
(* Generic helpers.                                                        *)
(***************************************************************************)
Range(s) == { s[i] : i \in 1..Len(s) }

Ok(v) == [ok |-> TRUE, v |-> v, err |-> "", field |-> ""]

Err(e) == [ok |-> FALSE, v |-> 0, err |-> e, field |-> ""]

ErrField(e, f) == [ok |-> FALSE, v |-> 0, err |-> e, field |-> f]

\* Option<T> is a sequence of at most one element.
None == << >>

Some(v) == << v >>

\* All sequences over S of length lo..hi.
SeqsOf(S, lo, hi) == UNION { [1..n -> S] : n \in lo..hi }

\* Sequences without a repeated element.
NoDup(s) == \A i, j \in 1..Len(s) : s[i] = s[j] => i = j

(***************************************************************************)
(* Boundary encodings.  A text is a sequence of characters; a character is *)
(* its index in the base-58 alphabet (0..57), any other number is a        *)
(* character outside the alphabet.  Bytes are numbers 0..255.  The model   *)
(* scales the widths down: one byte stands for the 32 bytes of a hash, of a *)
(* scalar or of a curve point, PUBKEY_BYTES bytes for those of an address. *)
(***************************************************************************)
RECURSIVE FromBase(_, _)
FromBase(s, b) ==
    IF s = << >> THEN 0
    ELSE FromBase(SubSeq(s, 1, Len(s) - 1), b) * b + s[Len(s)]

RECURSIVE MinDigits(_, _)
MinDigits(n, b) ==
    IF n = 0 THEN << >> ELSE MinDigits(n \div b, b) \o << n % b >>

RECURSIVE LeadingZeros(_)
LeadingZeros(s) ==
    IF s = << >> \/ s[1] # 0 THEN 0 ELSE 1 + LeadingZeros(Tail(s))

Zeros(n) == [i \in 1..n |-> 0]

\* The encoding that drops the leading zero bytes.
bs58_encode_without_zeros(bytes) == MinDigits(FromBase(bytes, 256), 58)

\* bs58::encode: each leading zero byte becomes the first letter of the
\* alphabet, the rest is the number the bytes spell, written in base 58.
bs58_encode(bytes) ==
    Zeros(LeadingZeros(bytes)) \o MinDigits(FromBase(bytes, 256), 58)

\* bs58::decode: fails on a character outside the alphabet.
bs58_decode(text) ==
    IF \E i \in 1..Len(text) : text[i] \notin 0..57
    THEN Err("BadBase58")
    ELSE Ok(Zeros(LeadingZeros(text)) \o MinDigits(FromBase(text, 58), 256))

(***************************************************************************)
(* Scalar and point arithmetic (the leaf component of the specification).  *)
(* The group is the additive group of integers modulo the prime L; a point *)
(* is a residue, G generates the group.                                    *)
(***************************************************************************)
L == 251

G == 7

PointAdd(P, Q) == (P + Q) % L

PointMul(k, P) == (k * P) % L

\* The keypairs of the universe: secret scalar x and public key x*G.
KeyPairs == { [secret |-> x, public |-> PointMul(x, G)] : x \in 1..MaxN }

Pubkeys == { kp.public : kp \in KeyPairs }

\* The values the randomness source of round 1 can draw.
Nonces == 1..MaxNonce

(***************************************************************************)
(* A scalar that depends on challenges is kept as a linear form            *)
(*   k + SUM m_j * c_j   (mod L)                                           *)
(* over the challenges c_j, a challenge being the input of the hash that   *)
(* produces it: the hash is collision free, two challenges are equal       *)
(* exactly when their inputs are.                                          *)
(***************************************************************************)
Challenge(R, X, M) == [R |-> R, X |-> X, M |-> M]

Scalar(k, c, m) ==
    [k |-> k % L, t |-> IF m % L = 0 THEN {} ELSE {[c |-> c, m |-> m % L]}]

CoefOf(s, c) ==
    IF \E e \in s.t : e.c = c THEN (CHOOSE e \in s.t : e.c = c).m ELSE 0

ScalarAdd(a, b) ==
    LET cs == { e.c : e \in a.t \cup b.t }
        all == { [c |-> c, m |-> (CoefOf(a, c) + CoefOf(b, c)) % L] : c \in cs }
    IN [k |-> (a.k + b.k) % L, t |-> { e \in all : e.m # 0 }]

RECURSIVE ScalarSum(_)
ScalarSum(ss) ==
    IF ss = << >> THEN [k |-> 0, t |-> {}]
    ELSE ScalarAdd(ss[1], ScalarSum(Tail(ss)))

\* Ordinary single-key verification of (R, s) against X over M:
\* s*G = R + H(R, X, M)*X, as an identity in the challenges.
Verify(R, s, X, M) ==
    /\ PointMul(s.k, G) = R
    /\ { [c |-> e.c, P |-> PointMul(e.m, G)] : e \in s.t }
         = IF X = 0 THEN {} ELSE {[c |-> Challenge(R, X, M), P |-> X]}

(***************************************************************************)
(* Addresses.  An address is a number below 256^PUBKEY_BYTES.  The public  *)
(* keys are the addresses 0..255; the addresses the chain derives by       *)
(* hashing (associated token accounts, seed-derived accounts) and the      *)
(* well-known program and sysvar ids are numbers above that range; the     *)
(* derivations are injective, as a collision-free hash is.                 *)
(***************************************************************************)
WellKnown(i) == 900000 + i

SYSTEM_PROGRAM == WellKnown(1)

TOKEN_PROGRAM == WellKnown(2)

MEMO_PROGRAM == WellKnown(3)

STAKE_PROGRAM == WellKnown(4)

ATA_PROGRAM == WellKnown(5)

SYSVAR_RENT == WellKnown(6)

SYSVAR_CLOCK == WellKnown(7)

SYSVAR_STAKE_HISTORY == WellKnown(8)

STAKE_CONFIG == WellKnown(9)

\* spl_associated_token_account::get_associated_token_address
get_associated_token_address(wallet, mint) == 100000 + wallet * 256 + mint

\* A seed is a string: a sequence of characters 0..9.
SeedCode(seed) == FromBase(<< 1 >> \o seed, 10)

\* The longest seed Pubkey::create_with_seed accepts (32 in the SDK).
MAX_SEED_LEN == 1

\* Pubkey::create_with_seed(base, seed, owner)
create_with_seed(base, seed, owner) ==
    IF Len(seed) > MAX_SEED_LEN THEN Err("MaxSeedLengthExceeded")
    ELSE Ok(200000 + base * 1000 + SeedCode(seed) * 10 + (owner % 10))

(***************************************************************************)
(* Instructions and messages of the Solana SDK, as far as the templates    *)
(* use them.                                                               *)
(***************************************************************************)
AccountMeta(pubkey, is_signer, is_writable) ==
    [pubkey |-> pubkey, is_signer |-> is_signer, is_writable |-> is_writable]

Instruction(program_id, accounts, data) ==
    [program_id |-> program_id, accounts |-> accounts, data |-> data]

\* solana_sdk::message::Message::new(instructions, Some(payer))
Message(instructions, payer) ==
    [payer |-> payer, instructions |-> instructions, recent_blockhash |-> 0]

\* The keys that must sign a message: the fee payer and every signer account.
RequiredSigners(msg) ==
    {msg.payer} \cup
    UNION { { a.pubkey : a \in { b \in Range(ins.accounts) : b.is_signer } } :
              ins \in Range(msg.instructions) }

\* Transaction::new_unsigned(msg)
new_unsigned(msg) == [message |-> msg, signatures |-> << >>]

system_transfer(from, to, lamports) ==
    Instruction(SYSTEM_PROGRAM,
                << AccountMeta(from, TRUE, TRUE), AccountMeta(to, FALSE, TRUE) >>,
                << "Transfer", lamports >>)

system_create_account_with_seed(from, to, base, seed, lamports, space, owner) ==
    Instruction(SYSTEM_PROGRAM,
                << AccountMeta(from, TRUE, TRUE), AccountMeta(to, FALSE, TRUE) >>
                  \o (IF base # from THEN << AccountMeta(base, TRUE, FALSE) >>
                      ELSE << >>),
                << "CreateAccountWithSeed", base, SeedCode(seed), lamports, space,
                   owner >>)

stake_initialize(stake, staker, withdrawer) ==
    Instruction(STAKE_PROGRAM,
                << AccountMeta(stake, FALSE, TRUE),
                   AccountMeta(SYSVAR_RENT, FALSE, FALSE) >>,
                << "Initialize", staker, withdrawer, 0, 0, 0 >>)

stake_delegate_stake(stake, authorized, vote) ==
    Instruction(STAKE_PROGRAM,
                << AccountMeta(stake, FALSE, TRUE),
                   AccountMeta(vote, FALSE, FALSE),
                   AccountMeta(SYSVAR_CLOCK, FALSE, FALSE),
                   AccountMeta(SYSVAR_STAKE_HISTORY, FALSE, FALSE),
                   AccountMeta(STAKE_CONFIG, FALSE, FALSE),
                   AccountMeta(authorized, TRUE, FALSE) >>,
                << "DelegateStake" >>)

stake_deactivate_stake(stake, authorized) ==
    Instruction(STAKE_PROGRAM,
                << AccountMeta(stake, FALSE, TRUE),
                   AccountMeta(SYSVAR_CLOCK, FALSE, FALSE),
                   AccountMeta(authorized, TRUE, FALSE) >>,
                << "Deactivate" >>)

stake_withdraw(stake, withdrawer, to, lamports) ==
    Instruction(STAKE_PROGRAM,
                << AccountMeta(stake, FALSE, TRUE),
                   AccountMeta(to, FALSE, TRUE),
                   AccountMeta(SYSVAR_CLOCK, FALSE, FALSE),
                   AccountMeta(SYSVAR_STAKE_HISTORY, FALSE, FALSE),
                   AccountMeta(withdrawer, TRUE, FALSE) >>,
                << "Withdraw", lamports >>)

create_associated_token_account(funder, wallet, mint, token_program) ==
    Instruction(ATA_PROGRAM,
                << AccountMeta(funder, TRUE, TRUE),
                   AccountMeta(get_associated_token_address(wallet, mint), FALSE, TRUE),
                   AccountMeta(wallet, FALSE, FALSE),
                   AccountMeta(mint, FALSE, FALSE),
                   AccountMeta(SYSTEM_PROGRAM, FALSE, FALSE),
                   AccountMeta(token_program, FALSE, FALSE) >>,
                << "Create" >>)

token_transfer(token_program, source, destination, authority, amount) ==
    Instruction(token_program,
                << AccountMeta(source, FALSE, TRUE),
                   AccountMeta(destination, FALSE, TRUE),
                   AccountMeta(authority, TRUE, FALSE) >>,
                << "Transfer", amount >>)

memo_instruction(memo) == Instruction(MEMO_PROGRAM, << >>, memo)

(***************************************************************************)
(* The chain, as the RPC client of a template sees it: whether the node    *)
(* answers, which accounts exist, and the rent-exempt minimum.             *)
(***************************************************************************)
rpc_get_account_is_err(chain, address) ==
    ~chain.up \/ address \notin chain.accounts

rpc_get_minimum_balance_for_rent_exemption(chain) ==
    IF chain.up THEN Ok(chain.rent) ELSE Err("ClientError")

\* A call that queries the node more than once waits for each answer while
\* the chain moves on: During(first, later) is the chain as such a call
\* finds it, `first` at its first query and `later` at the queries after
\* it.  Later(chain) is the chain at the later queries; a chain that holds
\* still during the call is the same at every query.
During(first, later) ==
    [f \in DOMAIN first \cup {"later"} |->
       IF f = "later" THEN later ELSE first[f]]

Later(chain) == IF "later" \in DOMAIN chain THEN chain.later ELSE chain

\* The part of the chain a get_account query reads.
Accounts(chain) == [up |-> chain.up, accounts |-> chain.accounts]

(***************************************************************************)
(* Amounts.  An f64 amount a of a request stands for a / AmountDen: the    *)
(* requests can name amounts finer than one lamport or one token unit.     *)
(* u64 arithmetic is modulo U64Mod.                                        *)
(***************************************************************************)
AmountDen == 2

U64Mod == 64

\* `x as u64` of a float: truncates toward zero and saturates.
f64_as_u64(num, den) ==
    IF num <= 0 THEN 0
    ELSE IF num \div den >= U64Mod THEN U64Mod - 1
    ELSE num \div den

\* native_token::sol_to_lamports(amount) = (amount * LAMPORTS_PER_SOL) as u64,
\* with one lamport per unit of amount in the model.
sol_to_lamports(amount) == f64_as_u64(amount, AmountDen)

\* u64 addition: an overflow aborts the call when the build checks overflow
\* (debug profile) and wraps otherwise (release profile).
u64_add(a, b, overflow_checks) ==
    IF a + b < U64Mod THEN Ok(a + b)
    ELSE IF overflow_checks THEN Err("Panic")
    ELSE Ok((a + b) % U64Mod)

RECURSIVE Pow10(_)
Pow10(d) == IF d = 0 THEN 1 ELSE 10 * Pow10(d - 1)

(***************************************************************************)
(* The transaction templates.  env is the environment of the process: the  *)
(* testnet node the templates query (up, accounts, rent) and the build     *)
(* profile (overflow_checks).                                              *)
(***************************************************************************)
\* The transfer template with the payer as the recipient.
create_unsigned_transaction_to_payer(amount, to, memo, payer) ==
    LET lamports == sol_to_lamports(amount)
        transfer_ins == system_transfer(payer, payer, lamports)
        msg == IF memo = None
               THEN Message(<< transfer_ins >>, payer)
               ELSE Message(<< transfer_ins, memo_instruction(memo[1]) >>, payer)
    IN new_unsigned(msg)

\* The native transfer rendered without the memo.
create_unsigned_transaction_without_memo(amount, to, memo, payer) ==
    LET lamports == sol_to_lamports(amount)
        transfer_ins == system_transfer(payer, to, lamports)
    IN new_unsigned(Message(<< transfer_ins >>, payer))

\* The native transfer that renders an empty memo as no memo.
create_unsigned_transaction_skip_empty_memo(amount, to, memo, payer) ==
    LET lamports == sol_to_lamports(amount)
        transfer_ins == system_transfer(payer, to, lamports)
        msg == IF memo = None \/ memo = Some(<< >>)
               THEN Message(<< transfer_ins >>, payer)
               ELSE Message(<< transfer_ins, memo_instruction(memo[1]) >>, payer)
    IN new_unsigned(msg)

create_unsigned_transaction(amount, to, memo, payer) ==
    LET lamports == sol_to_lamports(amount)
        transfer_ins == system_transfer(payer, to, lamports)
        msg == IF memo = None
               THEN Message(<< transfer_ins >>, payer)
               ELSE Message(<< transfer_ins, memo_instruction(memo[1]) >>, payer)
    IN new_unsigned(msg)

\* The token template with the recipient as the fee payer of the message.
create_spl_token_transaction_recipient_pays(amount, from, to, token_mint, payer, memo, decimals, env) ==
    LET from_ata == get_associated_token_address(from, token_mint)
        to_ata == get_associated_token_address(to, token_mint)
        create_ata ==
            create_associated_token_account(payer, to, token_mint, TOKEN_PROGRAM)
        ins1 == IF rpc_get_account_is_err(env, from_ata)
                THEN << create_ata >> ELSE << >>
        ins2 == IF rpc_get_account_is_err(Later(env), to_ata)
                THEN << create_ata >> ELSE << >>
        transfer_instruction ==
            token_transfer(TOKEN_PROGRAM, from_ata, to_ata, from, amount)
        ins4 == IF memo # None THEN << memo_instruction(memo[1]) >> ELSE << >>
    IN Ok(new_unsigned(
           Message(ins1 \o ins2 \o << transfer_instruction >> \o ins4, to)))

\* The token template that looks up the sender's token account only.
create_spl_token_transaction_sender_lookup_only(amount, from, to, token_mint, payer, memo, decimals, env) ==
    LET from_ata == get_associated_token_address(from, token_mint)
        to_ata == get_associated_token_address(to, token_mint)
        create_ata ==
            create_associated_token_account(payer, to, token_mint, TOKEN_PROGRAM)
        ins1 == IF rpc_get_account_is_err(env, from_ata)
                THEN << create_ata >> ELSE << >>
        transfer_instruction ==
            token_transfer(TOKEN_PROGRAM, from_ata, to_ata, from, amount)
        ins4 == IF memo # None THEN << memo_instruction(memo[1]) >> ELSE << >>
    IN Ok(new_unsigned(
           Message(ins1 \o << transfer_instruction >> \o ins4, payer)))

create_spl_token_transaction(amount, from, to, token_mint, payer, memo, decimals, env) ==
    LET from_ata == get_associated_token_address(from, token_mint)
        to_ata == get_associated_token_address(to, token_mint)
        create_ata ==
            create_associated_token_account(payer, to, token_mint, TOKEN_PROGRAM)
        ins1 == IF rpc_get_account_is_err(env, from_ata)
                THEN << create_ata >> ELSE << >>
        ins2 == IF rpc_get_account_is_err(Later(env), to_ata)
                THEN << create_ata >> ELSE << >>
        transfer_instruction ==
            token_transfer(TOKEN_PROGRAM, from_ata, to_ata, from, amount)
        ins4 == IF memo # None THEN << memo_instruction(memo[1]) >> ELSE << >>
    IN Ok(new_unsigned(
           Message(ins1 \o ins2 \o << transfer_instruction >> \o ins4, payer)))

get_token_amount_with_decimals(amount, decimals) ==
    f64_as_u64(amount * Pow10(decimals), AmountDen)

\* size_of::<StakeStateV2>()
STAKE_SPACE == 200

\* The stake template that asks for the rent before it derives the address.
create_stake_account_transaction_rent_first(stake_amount, seed, payer, validator_vote_accont, env) ==
    LET stake_account == create_with_seed(payer, seed, STAKE_PROGRAM)
        rent == rpc_get_minimum_balance_for_rent_exemption(env)
        lamports == u64_add(rent.v, stake_amount, env.overflow_checks)
    IN IF ~rent.ok
         THEN ErrField("StakeAccountCreationFailed", rent.err)
       ELSE IF ~stake_account.ok
         THEN ErrField("InvalidStakeAccountSeed", stake_account.err)
       ELSE IF ~lamports.ok
         THEN lamports
       ELSE Ok(new_unsigned(Message(
                << system_create_account_with_seed(
                       payer, stake_account.v, payer, seed, lamports.v,
                       STAKE_SPACE, STAKE_PROGRAM),
                   stake_initialize(stake_account.v, payer, payer),
                   stake_delegate_stake(stake_account.v, payer,
                                        validator_vote_accont) >>,
                payer)))

create_stake_account_transaction(stake_amount, seed, payer, validator_vote_accont, env) ==
    LET stake_account == create_with_seed(payer, seed, STAKE_PROGRAM)
        rent == rpc_get_minimum_balance_for_rent_exemption(env)
        lamports == u64_add(rent.v, stake_amount, env.overflow_checks)
    IN IF ~stake_account.ok
         THEN ErrField("InvalidStakeAccountSeed", stake_account.err)
       ELSE IF ~rent.ok
         THEN ErrField("StakeAccountCreationFailed", rent.err)
       ELSE IF ~lamports.ok
         THEN lamports
       ELSE Ok(new_unsigned(Message(
                << system_create_account_with_seed(
                       payer, stake_account.v, payer, seed, lamports.v,
                       STAKE_SPACE, STAKE_PROGRAM),
                   stake_initialize(stake_account.v, payer, payer),
                   stake_delegate_stake(stake_account.v, payer,
                                        validator_vote_accont) >>,
                payer)))

create_deactivate_stake_transaction(stake_account, authorized) ==
    new_unsigned(Message(<< stake_deactivate_stake(stake_account, authorized) >>,
                         authorized))

create_withdraw_stake_transaction(stake_account, destination, authorized, amount) ==
    new_unsigned(Message(
        << stake_withdraw(stake_account, authorized, destination, amount) >>,
        authorized))

\* The message a template renders for the payer, or the template's error.
\* t is the payload: its kind and the kind's parameters.
RenderTemplate(t, payer, env) ==
    CASE t.kind = "send" ->
           Ok(create_unsigned_transaction(t.amount, t.to, t.memo, payer))
      [] t.kind = "spl" ->
           create_spl_token_transaction(
               get_token_amount_with_decimals(t.amount, t.decimals),
               payer, t.to, t.token_mint, payer, t.memo, t.decimals, env)
      [] t.kind = "stake" ->
           create_stake_account_transaction(t.stake_amount, t.seed, payer,
                                            t.vote_account, env)
      [] t.kind = "deactivate" ->
           Ok(create_deactivate_stake_transaction(t.stake_account, payer))
      [] t.kind = "withdraw" ->
           Ok(create_withdraw_stake_transaction(t.stake_account, t.destination,
                                                payer, t.amount))

(***************************************************************************)
(* The signing engine (module tss of the repository): key aggregation,     *)
(* round 1, round 2 and aggregation, after sections 4.1 to 4.4 of the      *)
(* specification.                                                          *)
(***************************************************************************)
RECURSIVE InsertSorted(_, _)
InsertSorted(x, s) ==
    IF s = << >> THEN << x >>
    ELSE IF x <= s[1] THEN << x >> \o s
    ELSE << s[1] >> \o InsertSorted(x, Tail(s))

RECURSIVE SortKeys(_)
SortKeys(keys) ==
    IF keys = << >> THEN << >> ELSE InsertSorted(keys[1], SortKeys(Tail(keys)))

\* The key list in the order the caller wrote it.
Canonical_as_given(keys) == keys

\* The canonical form of a key list: sorted by encoded bytes.
Canonical(keys) == SortKeys(keys)

\* The aggregation coefficient of key X in the canonical key list: a hash of
\* the list and the key, a scalar in 1..4.
Coefficient(canonical, X) == 1 + ((FromBase(canonical, 31) + X) % 4)

RECURSIVE WeightedSum(_, _)
WeightedSum(canonical, todo) ==
    IF todo = << >> THEN 0
    ELSE PointAdd(PointMul(Coefficient(canonical, todo[1]), todo[1]),
                  WeightedSum(canonical, Tail(todo)))

\* Key aggregation without the uniqueness check.
key_agg_accepts_duplicates(keys, key) ==
    IF keys = << >> THEN ErrField("InvalidPublicKey", "empty key list")
    ELSE IF \E i \in 1..Len(keys) : keys[i] \notin 0..(L - 1)
      THEN ErrField("InvalidPublicKey", "not a point")
    ELSE LET canonical == Canonical(keys)
         IN Ok([agg_public_key |-> WeightedSum(canonical, canonical),
                coefficient |-> Coefficient(canonical,
                                  IF key = None THEN keys[1] ELSE key[1])])

\* key_agg(keys, key): the aggregated public key of the key list and the
\* coefficient of `key` in it (of the first key when key is None).
key_agg(keys, key) ==
    IF keys = << >> THEN ErrField("InvalidPublicKey", "empty key list")
    ELSE IF \E i \in 1..Len(keys) : keys[i] \notin 0..(L - 1)
      THEN ErrField("InvalidPublicKey", "not a point")
    ELSE IF ~NoDup(keys) THEN ErrField("InvalidPublicKey", "duplicate key")
    ELSE LET canonical == Canonical(keys)
         IN Ok([agg_public_key |-> WeightedSum(canonical, canonical),
                coefficient |-> Coefficient(canonical,
                                  IF key = None THEN keys[1] ELSE key[1])])

\* step_one(keypair): r is the draw of the randomness source.
step_one(keypair, r) ==
    [first_msg |-> [R |-> PointMul(r, G)],
     secret |-> [r |-> r, R |-> PointMul(r, G)]]

RECURSIVE SumNonces(_)
SumNonces(first_messages) ==
    IF first_messages = << >> THEN 0
    ELSE PointAdd(first_messages[1].R, SumNonces(Tail(first_messages)))

\* Round 2 with the membership check ahead of the count check.
Round2_membership_first(keypair, t, recent_block_hash, keys, first_messages, secret_state, env) ==
    IF keypair.public \notin Range(keys) THEN Err("KeyPairIsNotInKeys")
    ELSE IF Len(first_messages) # Len(keys) THEN Err("MismatchMessages")
    ELSE LET aggkey == key_agg(keys, Some(keypair.public))
             tx == RenderTemplate(t, aggkey.v.agg_public_key, env)
             M == [tx.v.message EXCEPT !.recent_blockhash = recent_block_hash]
             R == SumNonces(first_messages)
             c == Challenge(R, aggkey.v.agg_public_key, M)
         IN IF ~aggkey.ok THEN aggkey
            ELSE IF ~tx.ok THEN tx
            ELSE Ok([R |-> R,
                     s |-> Scalar(secret_state.r, c,
                                  aggkey.v.coefficient * (keypair.secret % L)),
                     c |-> c])

\* Round 2 without the membership check.
Round2_any_caller(keypair, t, recent_block_hash, keys, first_messages, secret_state, env) ==
    IF Len(first_messages) # Len(keys) THEN Err("MismatchMessages")
    ELSE LET aggkey == key_agg(keys, Some(keypair.public))
             tx == RenderTemplate(t, aggkey.v.agg_public_key, env)
             M == [tx.v.message EXCEPT !.recent_blockhash = recent_block_hash]
             R == SumNonces(first_messages)
             c == Challenge(R, aggkey.v.agg_public_key, M)
         IN IF ~aggkey.ok THEN aggkey
            ELSE IF ~tx.ok THEN tx
            ELSE Ok([R |-> R,
                     s |-> Scalar(secret_state.r, c,
                                  aggkey.v.coefficient * (keypair.secret % L)),
                     c |-> c])

\* Round 2 for the payload t: the validations, then
\* s_i = r_i + c * a_i * x_i with c = H(R, X, M).
Round2(keypair, t, recent_block_hash, keys, first_messages, secret_state, env) ==
    IF Len(first_messages) # Len(keys) THEN Err("MismatchMessages")
    ELSE IF keypair.public \notin Range(keys) THEN Err("KeyPairIsNotInKeys")
    ELSE LET aggkey == key_agg(keys, Some(keypair.public))
             tx == RenderTemplate(t, aggkey.v.agg_public_key, env)
             M == [tx.v.message EXCEPT !.recent_blockhash = recent_block_hash]
             R == SumNonces(first_messages)
             c == Challenge(R, aggkey.v.agg_public_key, M)
         IN IF ~aggkey.ok THEN aggkey
            ELSE IF ~tx.ok THEN tx
            ELSE Ok([R |-> R,
                     s |-> Scalar(secret_state.r, c,
                                  aggkey.v.coefficient * (keypair.secret % L)),
                     c |-> c])

\* Aggregation for the payload t: re-render M, sum the partial signatures,
\* attach (R, s) as the signature of the aggregated key and verify it.
Aggregate(t, recent_block_hash, keys, signatures, env) ==
    LET aggkey == key_agg(keys, None)
        tx == RenderTemplate(t, aggkey.v.agg_public_key, env)
        M == [tx.v.message EXCEPT !.recent_blockhash = recent_block_hash]
        R == signatures[1].R
        s == ScalarSum([i \in 1..Len(signatures) |-> signatures[i].s])
    IN IF ~aggkey.ok THEN aggkey
       ELSE IF ~tx.ok THEN tx
       ELSE IF signatures = << >> THEN Err("InvalidSignature")
       ELSE IF ~Verify(R, s, aggkey.v.agg_public_key, M)
         THEN Err("InvalidSignature")
       ELSE Ok([message |-> M, signatures |-> << [R |-> R, s |-> s] >>])

\* The five round-2 routines and the five aggregation routines of module
\* tss, as main.rs calls them: one copy per transaction kind.
step_two(keypair, amount, to, memo, recent_block_hash, keys, first_messages, secret_state, env) ==
    Round2(keypair, [kind |-> "send", amount |-> amount, to |-> to, memo |-> memo],
           recent_block_hash, keys, first_messages, secret_state, env)

spl_step_two(keypair, amount, to, token_mint, decimals, memo, recent_block_hash, keys, first_messages, secret_state, env) ==
    Round2(keypair,
           [kind |-> "spl", amount |-> amount, to |-> to, token_mint |-> token_mint,
            decimals |-> decimals, memo |-> memo],
           recent_block_hash, keys, first_messages, secret_state, env)

stake_step_two(keypair, stake_amount, seed, vote_account, recent_block_hash, keys, first_messages, secret_state, env) ==
    Round2(keypair,
           [kind |-> "stake", stake_amount |-> stake_amount, seed |-> seed,
            vote_account |-> vote_account],
           recent_block_hash, keys, first_messages, secret_state, env)

deactivate_stake_step_two(keypair, stake_account, recent_block_hash, keys, first_messages, secret_state, env) ==
    Round2(keypair, [kind |-> "deactivate", stake_account |-> stake_account],
           recent_block_hash, keys, first_messages, secret_state, env)

withdraw_stake_step_two(keypair, stake_account, destination, amount, recent_block_hash, keys, first_messages, secret_state, env) ==
    Round2(keypair,
           [kind |-> "withdraw", stake_account |-> stake_account,
            destination |-> destination, amount |-> amount],
           recent_block_hash, keys, first_messages, secret_state, env)

sign_and_broadcast(amount, to, memo, recent_block_hash, keys, signatures, env) ==
    Aggregate([kind |-> "send", amount |-> amount, to |-> to, memo |-> memo],
              recent_block_hash, keys, signatures, env)

spl_sign_and_broadcast(amount, to, token_mint, decimals, memo, recent_block_hash, keys, signatures, env) ==
    Aggregate([kind |-> "spl", amount |-> amount, to |-> to, token_mint |-> token_mint,
               decimals |-> decimals, memo |-> memo],
              recent_block_hash, keys, signatures, env)

aggregate_stake_signatures_and_broadcast(stake_amount, seed, vote_account, recent_block_hash, keys, signatures, env) ==
    Aggregate([kind |-> "stake", stake_amount |-> stake_amount, seed |-> seed,
               vote_account |-> vote_account],
              recent_block_hash, keys, signatures, env)

aggregate_deactivate_stake_signatures_and_broadcast(stake_account, recent_block_hash, keys, signatures, env) ==
    Aggregate([kind |-> "deactivate", stake_account |-> stake_account],
              recent_block_hash, keys, signatures, env)

aggregate_withdraw_stake_signatures_and_broadcast(stake_account, destination, amount, recent_block_hash, keys, signatures, env) ==
    Aggregate([kind |-> "withdraw", stake_account |-> stake_account,
               destination |-> destination, amount |-> amount],
              recent_block_hash, keys, signatures, env)

(***************************************************************************)
(* Decoding and encoding of the request and response fields.               *)
(***************************************************************************)
\* Keypair::from_bytes: the secret half and the public half, a valid point.
parse_keypair_bs58(s) ==
    LET decoded == bs58_decode(s)
    IN IF ~decoded.ok THEN decoded
       ELSE IF Len(decoded.v) # 2 \/ decoded.v[2] >= L THEN Err("WrongKeyPair")
       ELSE Ok([secret |-> decoded.v[1], public |-> decoded.v[2]])

keypair_to_base58_string(kp) == bs58_encode(<< kp.secret, kp.public >>)

\* The bytes of an address (PUBKEY_BYTES is 32 in the SDK): the number of
\* the address, most significant byte first, with its leading zero bytes.
PUBKEY_BYTES == 3

PubkeyBytes(p) ==
    Zeros(PUBKEY_BYTES - Len(MinDigits(p, 256))) \o MinDigits(p, 256)

\* Pubkey::from_str: the text spells PUBKEY_BYTES bytes; every failure is
\* reported as the same BadBase58 error.
parse_pubkey(s) ==
    LET decoded == bs58_decode(s)
    IN IF ~decoded.ok \/ Len(decoded.v) # PUBKEY_BYTES THEN Err("BadBase58")
       ELSE Ok(FromBase(decoded.v, 256))

\* Pubkey::to_string: every address, a key or a derived one, has a text.
pubkey_to_string(p) == bs58_encode(PubkeyBytes(p))

\* Hash::from_str; every failure is reported as the same BadBase58 error.
parse_hash(s) ==
    LET decoded == bs58_decode(s)
    IN IF ~decoded.ok \/ Len(decoded.v) # 1 THEN Err("BadBase58")
       ELSE Ok(decoded.v[1])

hash_to_string(h) == bs58_encode(<< h >>)

\* AggMessage1: the commitment point R.
AggMessage1_serialize_bs58(m) == bs58_encode(<< m.R >>)

AggMessage1_deserialize_bs58(s) ==
    LET decoded == bs58_decode(s)
    IN IF ~decoded.ok \/ Len(decoded.v) # 1 \/ decoded.v[1] >= L
       THEN ErrField("DeserializationFailed", "first_messages")
       ELSE Ok([R |-> decoded.v[1]])

\* SecretAggStepOne: the nonce r and its commitment R.
SecretAggStepOne_serialize_bs58(st) == bs58_encode(<< st.r, st.R >>)

SecretAggStepOne_deserialize_bs58(s) ==
    LET decoded == bs58_decode(s)
    IN IF ~decoded.ok \/ Len(decoded.v) # 2 \/ decoded.v[1] >= L
          \/ decoded.v[2] >= L
       THEN ErrField("DeserializationFailed", "secret_state")
       ELSE Ok([r |-> decoded.v[1], R |-> decoded.v[2]])

\* PartialSignature: the aggregated nonce R and the scalar s = k + m*c.  The
\* text spells R, k and m; h is the challenge c that the scalar stands for.
PartialSignature_serialize_bs58(sig) ==
    [b58 |-> bs58_encode(<< sig.R, sig.s.k, CoefOf(sig.s, sig.c) >>), h |-> sig.c]

PartialSignature_deserialize_bs58(s) ==
    LET decoded == bs58_decode(s.b58)
    IN IF ~decoded.ok \/ Len(decoded.v) # 3
          \/ \E i \in 1..Len(decoded.v) : decoded.v[i] >= L
       THEN ErrField("DeserializationFailed", "signatures")
       ELSE Ok([R |-> decoded.v[1],
                s |-> Scalar(decoded.v[2], s.h, decoded.v[3]),
                c |-> s.h])

\* collect::<Result<Vec<_>, _>>(): the values, or the first error.
AllOk(rs) == \A i \in 1..Len(rs) : rs[i].ok

FirstErr(rs) == rs[CHOOSE i \in 1..Len(rs) : ~rs[i].ok /\ \A j \in 1..(i - 1) : rs[j].ok]

Values(rs) == [i \in 1..Len(rs) |-> rs[i].v]

(***************************************************************************)
(* The request handlers of main.rs.  A handler maps a request (its fields  *)
(* are texts), the environment and the outcome of the RPC calls it makes   *)
(* (rpc.send_ok, rpc.confirm_ok) to                                        *)
(*   resp   the response,                                                  *)
(*   calls  the routines and RPC calls it invoked, in order,               *)
(*   sent   the transactions it handed to send_transaction.                *)
(* A panic (status 0) ends the request without a response.                 *)
(***************************************************************************)
error_response(e) ==
    [status |-> IF e.err = "Panic" THEN 0 ELSE 400,
     error |-> e.err, field |-> e.field, body |-> << >>]

success_response(data) ==
    [status |-> 200, error |-> "", field |-> "", body |-> data]

Call(op, net) == [op |-> op, net |-> net]

Done(resp, calls, sent) == [resp |-> resp, calls |-> calls, sent |-> sent]

\* The tail every aggregation handler shares: send, confirm, respond.
\* The broadcast that attempts the confirmation after a failed send.
Broadcast_confirm_after_failed_send(tx, net, rpc, calls) ==
    IF ~rpc.send_ok \/ ~rpc.confirm_ok
    THEN Done(error_response(Err(IF ~rpc.send_ok THEN "SendTransactionFailed"
                                 ELSE "ConfirmingTransactionFailed")),
              calls \o << Call("send_transaction", net),
                          Call("confirm_transaction", net) >>, << tx >>)
    ELSE Done(success_response([transaction_id |-> tx.signatures[1]]),
              calls \o << Call("send_transaction", net),
                          Call("confirm_transaction", net) >>, << tx >>)

Broadcast(tx, net, rpc, calls) ==
    IF ~rpc.send_ok
    THEN Done(error_response(Err("SendTransactionFailed")),
              calls \o << Call("send_transaction", net) >>, << tx >>)
    ELSE IF ~rpc.confirm_ok
    THEN Done(error_response(Err("ConfirmingTransactionFailed")),
              calls \o << Call("send_transaction", net),
                          Call("confirm_transaction", net) >>, << tx >>)
    ELSE Done(success_response([transaction_id |-> tx.signatures[1]]),
              calls \o << Call("send_transaction", net),
                          Call("confirm_transaction", net) >>, << tx >>)

aggregate_keys(req) ==
    LET keys == [i \in 1..Len(req.keys) |-> parse_pubkey(req.keys[i])]
        aggkey == key_agg(Values(keys), None)
    IN IF ~AllOk(keys) THEN Done(error_response(FirstErr(keys)), << >>, << >>)
       ELSE IF ~aggkey.ok
         THEN Done(error_response(aggkey), << Call("key_agg", "") >>, << >>)
       ELSE Done(success_response(
                   [aggregated_public_key |->
                      pubkey_to_string(aggkey.v.agg_public_key)]),
                 << Call("key_agg", "") >>, << >>)

agg_send_step_one(req, r) ==
    LET keypair == parse_keypair_bs58(req.keypair)
        out == step_one(keypair.v, r)
    IN IF ~keypair.ok THEN Done(error_response(keypair), << >>, << >>)
       ELSE Done(success_response(
                   [message_1 |-> AggMessage1_serialize_bs58(out.first_msg),
                    secret_state |-> SecretAggStepOne_serialize_bs58(out.secret)]),
                 << Call("step_one", "") >>, << >>)

\* The handler signing the transfer without the memo of the request.
agg_send_step_two_drops_memo(req, env) ==
    LET keypair == parse_keypair_bs58(req.keypair)
        to == parse_pubkey(req.to)
        block_hash == parse_hash(req.recent_block_hash)
        keys == [i \in 1..Len(req.keys) |-> parse_pubkey(req.keys[i])]
        first_messages ==
            [i \in 1..Len(req.first_messages) |->
               AggMessage1_deserialize_bs58(req.first_messages[i])]
        secret_state == SecretAggStepOne_deserialize_bs58(req.secret_state)
        sig == step_two(keypair.v, req.amount, to.v, None, block_hash.v,
                        Values(keys), Values(first_messages), secret_state.v, env)
    IN IF ~keypair.ok THEN Done(error_response(keypair), << >>, << >>)
       ELSE IF ~to.ok THEN Done(error_response(to), << >>, << >>)
       ELSE IF ~block_hash.ok THEN Done(error_response(block_hash), << >>, << >>)
       ELSE IF ~AllOk(keys) THEN Done(error_response(FirstErr(keys)), << >>, << >>)
       ELSE IF ~AllOk(first_messages)
         THEN Done(error_response(FirstErr(first_messages)), << >>, << >>)
       ELSE IF ~secret_state.ok
         THEN Done(error_response(secret_state), << >>, << >>)
       ELSE IF ~sig.ok
         THEN Done(error_response(sig), << Call("step_two", "") >>, << >>)
       ELSE Done(success_response(
                   [partial_signature |-> PartialSignature_serialize_bs58(sig.v)]),
                 << Call("step_two", "") >>, << >>)

\* The round-2 handler that decodes the round-1 messages before the
\* recipient.
agg_send_step_two_messages_first(req, env) ==
    LET keypair == parse_keypair_bs58(req.keypair)
        to == parse_pubkey(req.to)
        block_hash == parse_hash(req.recent_block_hash)
        keys == [i \in 1..Len(req.keys) |-> parse_pubkey(req.keys[i])]
        first_messages ==
            [i \in 1..Len(req.first_messages) |->
               AggMessage1_deserialize_bs58(req.first_messages[i])]
        secret_state == SecretAggStepOne_deserialize_bs58(req.secret_state)
        sig == step_two(keypair.v, req.amount, to.v, req.memo, block_hash.v,
                        Values(keys), Values(first_messages), secret_state.v, env)
    IN IF ~keypair.ok THEN Done(error_response(keypair), << >>, << >>)
       ELSE IF ~AllOk(first_messages)
         THEN Done(error_response(FirstErr(first_messages)), << >>, << >>)
       ELSE IF ~to.ok THEN Done(error_response(to), << >>, << >>)
       ELSE IF ~block_hash.ok THEN Done(error_response(block_hash), << >>, << >>)
       ELSE IF ~AllOk(keys) THEN Done(error_response(FirstErr(keys)), << >>, << >>)
       ELSE IF ~secret_state.ok
         THEN Done(error_response(secret_state), << >>, << >>)
       ELSE IF ~sig.ok
         THEN Done(error_response(sig), << Call("step_two", "") >>, << >>)
       ELSE Done(success_response(
                   [partial_signature |-> PartialSignature_serialize_bs58(sig.v)]),
                 << Call("step_two", "") >>, << >>)

agg_send_step_two(req, env) ==
    LET keypair == parse_keypair_bs58(req.keypair)
        to == parse_pubkey(req.to)
        block_hash == parse_hash(req.recent_block_hash)
        keys == [i \in 1..Len(req.keys) |-> parse_pubkey(req.keys[i])]
        first_messages ==
            [i \in 1..Len(req.first_messages) |->
               AggMessage1_deserialize_bs58(req.first_messages[i])]
        secret_state == SecretAggStepOne_deserialize_bs58(req.secret_state)
        sig == step_two(keypair.v, req.amount, to.v, req.memo, block_hash.v,
                        Values(keys), Values(first_messages), secret_state.v, env)
    IN IF ~keypair.ok THEN Done(error_response(keypair), << >>, << >>)
       ELSE IF ~to.ok THEN Done(error_response(to), << >>, << >>)
       ELSE IF ~block_hash.ok THEN Done(error_response(block_hash), << >>, << >>)
       ELSE IF ~AllOk(keys) THEN Done(error_response(FirstErr(keys)), << >>, << >>)
       ELSE IF ~AllOk(first_messages)
         THEN Done(error_response(FirstErr(first_messages)), << >>, << >>)
       ELSE IF ~secret_state.ok
         THEN Done(error_response(secret_state), << >>, << >>)
       ELSE IF ~sig.ok
         THEN Done(error_response(sig), << Call("step_two", "") >>, << >>)
       ELSE Done(success_response(
                   [partial_signature |-> PartialSignature_serialize_bs58(sig.v)]),
                 << Call("step_two", "") >>, << >>)

aggregate_signatures(req, env, rpc) ==
    LET to == parse_pubkey(req.to)
        block_hash == parse_hash(req.recent_block_hash)
        keys == [i \in 1..Len(req.keys) |-> parse_pubkey(req.keys[i])]
        signatures ==
            [i \in 1..Len(req.signatures) |->
               PartialSignature_deserialize_bs58(req.signatures[i])]
        tx == sign_and_broadcast(req.amount, to.v, req.memo, block_hash.v,
                                 Values(keys), Values(signatures), env)
    IN IF ~to.ok THEN Done(error_response(to), << >>, << >>)
       ELSE IF ~block_hash.ok THEN Done(error_response(block_hash), << >>, << >>)
       ELSE IF ~AllOk(keys) THEN Done(error_response(FirstErr(keys)), << >>, << >>)
       ELSE IF ~AllOk(signatures)
         THEN Done(error_response(FirstErr(signatures)), << >>, << >>)
       ELSE IF ~tx.ok
         THEN Done(error_response(tx), << Call("sign_and_broadcast", "") >>, << >>)
       ELSE Broadcast(tx.v, req.net, rpc, << Call("sign_and_broadcast", "") >>)

spl_agg_send_step_two(req, env) ==
    LET keypair == parse_keypair_bs58(req.keypair)
        to == parse_pubkey(req.to)
        token_mint == parse_pubkey(req.token_mint)
        block_hash == parse_hash(req.recent_block_hash)
        keys == [i \in 1..Len(req.keys) |-> parse_pubkey(req.keys[i])]
        first_messages ==
            [i \in 1..Len(req.first_messages) |->
               AggMessage1_deserialize_bs58(req.first_messages[i])]
        secret_state == SecretAggStepOne_deserialize_bs58(req.secret_state)
        sig == spl_step_two(keypair.v, req.amount, to.v, token_mint.v, req.decimals,
                            req.memo, block_hash.v, Values(keys),
                            Values(first_messages), secret_state.v, env)
    IN IF ~keypair.ok THEN Done(error_response(keypair), << >>, << >>)
       ELSE IF ~to.ok THEN Done(error_response(to), << >>, << >>)
       ELSE IF ~token_mint.ok THEN Done(error_response(token_mint), << >>, << >>)
       ELSE IF ~block_hash.ok THEN Done(error_response(block_hash), << >>, << >>)
       ELSE IF ~AllOk(keys) THEN Done(error_response(FirstErr(keys)), << >>, << >>)
       ELSE IF ~AllOk(first_messages)
         THEN Done(error_response(FirstErr(first_messages)), << >>, << >>)
       ELSE IF ~secret_state.ok
         THEN Done(error_response(secret_state), << >>, << >>)
       ELSE IF ~sig.ok
         THEN Done(error_response(sig), << Call("spl_step_two", "") >>, << >>)
       ELSE Done(success_response(
                   [partial_signature |-> PartialSignature_serialize_bs58(sig.v)]),
                 << Call("spl_step_two", "") >>, << >>)

spl_aggregate_signatures(req, env, rpc) ==
    LET to == parse_pubkey(req.to)
        token_mint == parse_pubkey(req.token_mint)
        block_hash == parse_hash(req.recent_block_hash)
        keys == [i \in 1..Len(req.keys) |-> parse_pubkey(req.keys[i])]
        signatures ==
            [i \in 1..Len(req.signatures) |->
               PartialSignature_deserialize_bs58(req.signatures[i])]
        tx == spl_sign_and_broadcast(req.amount, to.v, token_mint.v, req.decimals,
                                     req.memo, block_hash.v, Values(keys),
                                     Values(signatures), env)
    IN IF ~to.ok THEN Done(error_response(to), << >>, << >>)
       ELSE IF ~token_mint.ok THEN Done(error_response(token_mint), << >>, << >>)
       ELSE IF ~block_hash.ok THEN Done(error_response(block_hash), << >>, << >>)
       ELSE IF ~AllOk(keys) THEN Done(error_response(FirstErr(keys)), << >>, << >>)
       ELSE IF ~AllOk(signatures)
         THEN Done(error_response(FirstErr(signatures)), << >>, << >>)
       ELSE IF ~tx.ok
         THEN Done(error_response(tx), << Call("spl_sign_and_broadcast", "") >>, << >>)
       ELSE Broadcast(tx.v, req.net, rpc, << Call("spl_sign_and_broadcast", "") >>)

agg_stake_step_two(req, env) ==
    LET keypair == parse_keypair_bs58(req.keypair)
        vote_account == parse_pubkey(req.validator_vote_accont)
        block_hash == parse_hash(req.recent_block_hash)
        keys == [i \in 1..Len(req.keys) |-> parse_pubkey(req.keys[i])]
        first_messages ==
            [i \in 1..Len(req.first_messages) |->
               AggMessage1_deserialize_bs58(req.first_messages[i])]
        secret_state == SecretAggStepOne_deserialize_bs58(req.secret_state)
        sig == stake_step_two(keypair.v, req.stake_amount, req.seed, vote_account.v,
                              block_hash.v, Values(keys), Values(first_messages),
                              secret_state.v, env)
    IN IF ~keypair.ok THEN Done(error_response(keypair), << >>, << >>)
       ELSE IF ~vote_account.ok THEN Done(error_response(vote_account), << >>, << >>)
       ELSE IF ~block_hash.ok THEN Done(error_response(block_hash), << >>, << >>)
       ELSE IF ~AllOk(keys) THEN Done(error_response(FirstErr(keys)), << >>, << >>)
       ELSE IF ~AllOk(first_messages)
         THEN Done(error_response(FirstErr(first_messages)), << >>, << >>)
       ELSE IF ~secret_state.ok
         THEN Done(error_response(secret_state), << >>, << >>)
       ELSE IF ~sig.ok
         THEN Done(error_response(sig), << Call("stake_step_two", "") >>, << >>)
       ELSE Done(success_response(
                   [partial_signature |-> PartialSignature_serialize_bs58(sig.v)]),
                 << Call("stake_step_two", "") >>, << >>)

agg_deactivate_stake_step_two(req, env) ==
    LET keypair == parse_keypair_bs58(req.keypair)
        stake_accountt == parse_pubkey(req.stake_account)
        block_hash == parse_hash(req.recent_block_hash)
        keys == [i \in 1..Len(req.keys) |-> parse_pubkey(req.keys[i])]
        first_messages ==
            [i \in 1..Len(req.first_messages) |->
               AggMessage1_deserialize_bs58(req.first_messages[i])]
        secret_state == SecretAggStepOne_deserialize_bs58(req.secret_state)
        sig == deactivate_stake_step_two(keypair.v, stake_accountt.v, block_hash.v,
                                         Values(keys), Values(first_messages),
                                         secret_state.v, env)
    IN IF ~keypair.ok THEN Done(error_response(keypair), << >>, << >>)
       ELSE IF ~stake_accountt.ok THEN Done(error_response(stake_accountt), << >>, << >>)
       ELSE IF ~block_hash.ok THEN Done(error_response(block_hash), << >>, << >>)
       ELSE IF ~AllOk(keys) THEN Done(error_response(FirstErr(keys)), << >>, << >>)
       ELSE IF ~AllOk(first_messages)
         THEN Done(error_response(FirstErr(first_messages)), << >>, << >>)
       ELSE IF ~secret_state.ok
         THEN Done(error_response(secret_state), << >>, << >>)
       ELSE IF ~sig.ok
         THEN Done(error_response(sig), << Call("deactivate_stake_step_two", "") >>, << >>)
       ELSE Done(success_response(
                   [partial_signature |-> PartialSignature_serialize_bs58(sig.v)]),
                 << Call("deactivate_stake_step_two", "") >>, << >>)

agg_withdraw_stake_step_two(req, env) ==
    LET keypair == parse_keypair_bs58(req.keypair)
        stake_accountt == parse_pubkey(req.stake_account)
        destination == parse_pubkey(req.destination)
        block_hash == parse_hash(req.recent_block_hash)
        keys == [i \in 1..Len(req.keys) |-> parse_pubkey(req.keys[i])]
        first_messages ==
            [i \in 1..Len(req.first_messages) |->
               AggMessage1_deserialize_bs58(req.first_messages[i])]
        secret_state == SecretAggStepOne_deserialize_bs58(req.secret_state)
        sig == withdraw_stake_step_two(keypair.v, stake_accountt.v, destination.v,
                                       req.amount, block_hash.v, Values(keys),
                                       Values(first_messages), secret_state.v, env)
    IN IF ~keypair.ok THEN Done(error_response(keypair), << >>, << >>)
       ELSE IF ~stake_accountt.ok THEN Done(error_response(stake_accountt), << >>, << >>)
       ELSE IF ~destination.ok THEN Done(error_response(destination), << >>, << >>)
       ELSE IF ~block_hash.ok THEN Done(error_response(block_hash), << >>, << >>)
       ELSE IF ~AllOk(keys) THEN Done(error_response(FirstErr(keys)), << >>, << >>)
       ELSE IF ~AllOk(first_messages)
         THEN Done(error_response(FirstErr(first_messages)), << >>, << >>)
       ELSE IF ~secret_state.ok
         THEN Done(error_response(secret_state), << >>, << >>)
       ELSE IF ~sig.ok
         THEN Done(error_response(sig), << Call("withdraw_stake_step_two", "") >>, << >>)
       ELSE Done(success_response(
                   [partial_signature |-> PartialSignature_serialize_bs58(sig.v)]),
                 << Call("withdraw_stake_step_two", "") >>, << >>)

\* The handler broadcasting whatever the aggregation returned.
aggregate_stake_signatures_unchecked(req, env, rpc) ==
    LET vote_account == parse_pubkey(req.validator_vote_accont)
        block_hash == parse_hash(req.recent_block_hash)
        keys == [i \in 1..Len(req.keys) |-> parse_pubkey(req.keys[i])]
        signatures ==
            [i \in 1..Len(req.signatures) |->
               PartialSignature_deserialize_bs58(req.signatures[i])]
        tx == aggregate_stake_signatures_and_broadcast(
                  req.stake_amount, req.seed, vote_account.v, block_hash.v,
                  Values(keys), Values(signatures), env)
    IN IF ~vote_account.ok THEN Done(error_response(vote_account), << >>, << >>)
       ELSE IF ~block_hash.ok THEN Done(error_response(block_hash), << >>, << >>)
       ELSE IF ~AllOk(keys) THEN Done(error_response(FirstErr(keys)), << >>, << >>)
       ELSE IF ~AllOk(signatures)
         THEN Done(error_response(FirstErr(signatures)), << >>, << >>)
       ELSE Broadcast(IF tx.ok THEN tx.v
                      ELSE [message |-> Message(<< >>, 0),
                            signatures |-> << [R |-> 0, s |-> Scalar(0, 0, 0)] >>],
                      req.net, rpc, << Call("aggregate_stake_signatures_and_broadcast", "") >>)

aggregate_stake_signatures(req, env, rpc) ==
    LET vote_account == parse_pubkey(req.validator_vote_accont)
        block_hash == parse_hash(req.recent_block_hash)
        keys == [i \in 1..Len(req.keys) |-> parse_pubkey(req.keys[i])]
        signatures ==
            [i \in 1..Len(req.signatures) |->
               PartialSignature_deserialize_bs58(req.signatures[i])]
        tx == aggregate_stake_signatures_and_broadcast(
                  req.stake_amount, req.seed, vote_account.v, block_hash.v,
                  Values(keys), Values(signatures), env)
    IN IF ~vote_account.ok THEN Done(error_response(vote_account), << >>, << >>)
       ELSE IF ~block_hash.ok THEN Done(error_response(block_hash), << >>, << >>)
       ELSE IF ~AllOk(keys) THEN Done(error_response(FirstErr(keys)), << >>, << >>)
       ELSE IF ~AllOk(signatures)
         THEN Done(error_response(FirstErr(signatures)), << >>, << >>)
       ELSE IF ~tx.ok
         THEN Done(error_response(tx), << Call("aggregate_stake_signatures_and_broadcast", "") >>, << >>)
       ELSE Broadcast(tx.v, req.net, rpc, << Call("aggregate_stake_signatures_and_broadcast", "") >>)

aggregate_deactivate_stake_signatures(req, env, rpc) ==
    LET stake_accountt == parse_pubkey(req.stake_account)
        block_hash == parse_hash(req.recent_block_hash)
        keys == [i \in 1..Len(req.keys) |-> parse_pubkey(req.keys[i])]
        signatures ==
            [i \in 1..Len(req.signatures) |->
               PartialSignature_deserialize_bs58(req.signatures[i])]
        tx == aggregate_deactivate_stake_signatures_and_broadcast(
                  stake_accountt.v, block_hash.v, Values(keys), Values(signatures),
                  env)
    IN IF ~stake_accountt.ok THEN Done(error_response(stake_accountt), << >>, << >>)
       ELSE IF ~block_hash.ok THEN Done(error_response(block_hash), << >>, << >>)
       ELSE IF ~AllOk(keys) THEN Done(error_response(FirstErr(keys)), << >>, << >>)
       ELSE IF ~AllOk(signatures)
         THEN Done(error_response(FirstErr(signatures)), << >>, << >>)
       ELSE IF ~tx.ok
         THEN Done(error_response(tx), << Call("aggregate_deactivate_stake_signatures_and_broadcast", "") >>, << >>)
       ELSE Broadcast(tx.v, req.net, rpc, << Call("aggregate_deactivate_stake_signatures_and_broadcast", "") >>)

aggregate_withdraw_stake_signatures(req, env, rpc) ==
    LET stake_accountt == parse_pubkey(req.stake_account)
        destination == parse_pubkey(req.destination)
        block_hash == parse_hash(req.recent_block_hash)
        keys == [i \in 1..Len(req.keys) |-> parse_pubkey(req.keys[i])]
        signatures ==
            [i \in 1..Len(req.signatures) |->
               PartialSignature_deserialize_bs58(req.signatures[i])]
        tx == aggregate_withdraw_stake_signatures_and_broadcast(
                  stake_accountt.v, destination.v, req.amount, block_hash.v,
                  Values(keys), Values(signatures), env)
    IN IF ~stake_accountt.ok THEN Done(error_response(stake_accountt), << >>, << >>)
       ELSE IF ~destination.ok THEN Done(error_response(destination), << >>, << >>)
       ELSE IF ~block_hash.ok THEN Done(error_response(block_hash), << >>, << >>)
       ELSE IF ~AllOk(keys) THEN Done(error_response(FirstErr(keys)), << >>, << >>)
       ELSE IF ~AllOk(signatures)
         THEN Done(error_response(FirstErr(signatures)), << >>, << >>)
       ELSE IF ~tx.ok
         THEN Done(error_response(tx), << Call("aggregate_withdraw_stake_signatures_and_broadcast", "") >>, << >>)
       ELSE Broadcast(tx.v, req.net, rpc, << Call("aggregate_withdraw_stake_signatures_and_broadcast", "") >>)

(***************************************************************************)
(* The single-signer handlers.  rpc holds the outcomes of the calls of the *)
(* handler's own client (get_latest_blockhash, send_transaction,           *)
(* confirm_transaction), node is the chain of the request's cluster as     *)
(* that client sees it, env is the testnet node the templates query.       *)
(***************************************************************************)
\* The hash get_latest_blockhash returns.
LatestHash == 52

\* tx.sign(&[&keypair], recent_hash)
sign(tx, keypair, recent_hash) ==
    LET msg == [tx.message EXCEPT !.recent_blockhash = recent_hash]
    IN [message |-> msg,
        signatures |-> << [signer |-> keypair.public, message |-> msg] >>]

\* get_latest_blockhash, sign, send_transaction, confirm_transaction and the
\* response with the transaction id.
SignAndSend(tx, keypair, net, rpc, calls) ==
    IF ~rpc.hash_ok
    THEN Done(error_response(Err("RecentHashFailed")),
              calls \o << Call("get_latest_blockhash", net) >>, << >>)
    ELSE Broadcast(sign(tx, keypair, LatestHash), net, rpc,
                   calls \o << Call("get_latest_blockhash", net) >>)

send_single(req, rpc) ==
    LET keypair == parse_keypair_bs58(req.keypair)
        to == parse_pubkey(req.to)
        tx == create_unsigned_transaction(req.amount, to.v, req.memo,
                                          keypair.v.public)
    IN IF ~keypair.ok THEN Done(error_response(keypair), << >>, << >>)
       ELSE IF ~to.ok THEN Done(error_response(to), << >>, << >>)
       ELSE SignAndSend(tx, keypair.v, req.net, rpc, << >>)

spl_send_single(req, node, rpc) ==
    LET keypair == parse_keypair_bs58(req.keypair)
        to == parse_pubkey(req.to)
        token_mint == parse_pubkey(req.token_mint)
        token_amount == f64_as_u64(req.amount * Pow10(req.decimals), AmountDen)
        from_ata == get_associated_token_address(keypair.v.public, token_mint.v)
        to_ata == get_associated_token_address(to.v, token_mint.v)
        to_ata_exists == ~rpc_get_account_is_err(node, to_ata)
        ins1 == IF ~to_ata_exists
                THEN << create_associated_token_account(
                            keypair.v.public, to.v, token_mint.v, TOKEN_PROGRAM) >>
                ELSE << >>
        transfer_instruction ==
            token_transfer(TOKEN_PROGRAM, from_ata, to_ata, keypair.v.public,
                           token_amount)
        ins3 == IF req.memo # None THEN << memo_instruction(req.memo[1]) >>
                ELSE << >>
        tx == new_unsigned(Message(ins1 \o << transfer_instruction >> \o ins3,
                                   keypair.v.public))
    IN IF ~keypair.ok THEN Done(error_response(keypair), << >>, << >>)
       ELSE IF ~to.ok THEN Done(error_response(to), << >>, << >>)
       ELSE IF ~token_mint.ok THEN Done(error_response(token_mint), << >>, << >>)
       ELSE SignAndSend(tx, keypair.v, req.net, rpc,
                        << Call("get_account", req.net) >>)

\* The chain queries create_stake_account_transaction issues: none when the
\* seed is refused, else the rent query to the testnet node.
create_stake_account_transaction_queries(seed, payer) ==
    IF ~create_with_seed(payer, seed, STAKE_PROGRAM).ok THEN << >>
    ELSE << Call("get_minimum_balance_for_rent_exemption", "testnet") >>

stake_account(req, env, rpc) ==
    LET keypair == parse_keypair_bs58(req.keypair)
        vote_account == parse_pubkey(req.validator_vote_accont)
        tx == create_stake_account_transaction(
                  req.stake_amount, req.seed, keypair.v.public, vote_account.v,
                  env)
        queries == create_stake_account_transaction_queries(
                       req.seed, keypair.v.public)
        sent == SignAndSend(tx.v, keypair.v, req.net, rpc, queries)
        stake_account_address ==
            create_with_seed(keypair.v.public, req.seed, STAKE_PROGRAM)
    IN IF ~keypair.ok THEN Done(error_response(keypair), << >>, << >>)
       ELSE IF ~vote_account.ok
         THEN Done(error_response(vote_account), << >>, << >>)
       ELSE IF ~tx.ok THEN Done(error_response(tx), queries, << >>)
       ELSE IF sent.resp.status # 200 THEN sent
       ELSE IF ~stake_account_address.ok
         THEN Done(error_response(Err("Invalid stake account seed")),
                   sent.calls, sent.sent)
       ELSE Done(success_response(
                   [stake_account_address |->
                      pubkey_to_string(stake_account_address.v),
                    transaction_id |-> sent.resp.body.transaction_id]),
                 sent.calls, sent.sent)

deactivate_stake(req, rpc) ==
    LET keypair == parse_keypair_bs58(req.keypair)
        stake_accountt == parse_pubkey(req.stake_account)
        tx == create_deactivate_stake_transaction(stake_accountt.v,
                                                  keypair.v.public)
    IN IF ~keypair.ok THEN Done(error_response(keypair), << >>, << >>)
       ELSE IF ~stake_accountt.ok
         THEN Done(error_response(stake_accountt), << >>, << >>)
       ELSE SignAndSend(tx, keypair.v, req.net, rpc, << >>)

withdraw_stake(req, rpc) ==
    LET keypair == parse_keypair_bs58(req.keypair)
        stake_accountt == parse_pubkey(req.stake_account)
        destination == parse_pubkey(req.destination)
        tx == create_withdraw_stake_transaction(
                  stake_accountt.v, destination.v, keypair.v.public, req.amount)
    IN IF ~keypair.ok THEN Done(error_response(keypair), << >>, << >>)
       ELSE IF ~stake_accountt.ok
         THEN Done(error_response(stake_accountt), << >>, << >>)
       ELSE IF ~destination.ok
         THEN Done(error_response(destination), << >>, << >>)
       ELSE SignAndSend(tx, keypair.v, req.net, rpc, << >>)

\* POST /api/airdrop: request_airdrop, get_latest_blockhash and
\* confirm_transaction on the cluster of the request; the transaction id is
\* the signature the cluster gives the airdrop.
airdrop(req, rpc) ==
    LET to == parse_pubkey(req.to)
        amount == sol_to_lamports(req.amount)
        asked == << Call("request_airdrop", req.net) >>
        hashed == asked \o << Call("get_latest_blockhash", req.net) >>
        confirmed == hashed \o << Call("confirm_transaction", req.net) >>
    IN IF ~to.ok THEN Done(error_response(to), << >>, << >>)
       ELSE IF ~rpc.airdrop_ok
         THEN Done(error_response(Err("AirdropFailed")), asked, << >>)
       ELSE IF ~rpc.hash_ok
         THEN Done(error_response(Err("RecentHashFailed")), hashed, << >>)
       ELSE IF ~rpc.confirm_ok
         THEN Done(error_response(Err("ConfirmingTransactionFailed")),
                   confirmed, << >>)
       ELSE Done(success_response(
                   [transaction_id |-> [airdrop |-> to.v, lamports |-> amount]]),
                 confirmed, << >>)


(***************************************************************************)
(* The router of main.rs and the callers.  The server keeps no state       *)
(* between requests: the state of the system is what the callers hold      *)
(* (round-1 outputs, partial signatures), the environment, and the request *)
(* whose response is in flight.                                            *)
(***************************************************************************)
Ids == 1..MaxN

KP(x) == [secret |-> x, public |-> PointMul(x, G)]

\* Key lists without repetition, as lists of participants.
KeyLists == { ks \in SeqsOf(Ids, 1, MaxN) : NoDup(ks) }

PubkeysOf(ks) == [i \in 1..Len(ks) |-> KP(ks[i]).public]

Networks == {"mainnet", "testnet", "devnet"}

Recipients == {11, 12}

Mints == {21}

Decimals == {0, 1}

VoteAccounts == {31}

StakeAccounts == {41, 42}

Hashes == {51, 52}

\* f64 amounts 1.0, 1.5 and 2.0
Amounts == {2, 3, 4}

\* u64 amounts
StakeAmounts == {1, 2}

Memos == {None, Some(<< 5 >>)}

Seeds == {<< >>, << 1 >>}

SendPayloads ==
    { [kind |-> "send", amount |-> a, to |-> to, memo |-> m] :
        a \in Amounts, to \in Recipients, m \in Memos }

SplPayloads ==
    { [kind |-> "spl", amount |-> a, to |-> to, token_mint |-> mint,
       decimals |-> d, memo |-> m] :
        a \in Amounts, to \in Recipients, mint \in Mints, d \in Decimals,
        m \in Memos }

StakePayloads ==
    { [kind |-> "stake", stake_amount |-> a, seed |-> seed, vote_account |-> v] :
        a \in StakeAmounts, seed \in Seeds, v \in VoteAccounts }

\* The stake payloads over the whole range of the u64 stake_amount.
AnyStakeAmounts == 0..(U64Mod - 1)

AnyStakePayloads ==
    { [kind |-> "stake", stake_amount |-> a, seed |-> seed, vote_account |-> v] :
        a \in AnyStakeAmounts, seed \in Seeds, v \in VoteAccounts }

DeactivatePayloads ==
    { [kind |-> "deactivate", stake_account |-> sa] : sa \in StakeAccounts }

WithdrawPayloads ==
    { [kind |-> "withdraw", stake_account |-> sa, destination |-> d,
       amount |-> a] :
        sa \in StakeAccounts, d \in Recipients, a \in StakeAmounts }

\* The payloads that differ from t in at most one field.
Near(t, payloads) ==
    { u \in payloads : Cardinality({ f \in DOMAIN t : t[f] # u[f] }) <= 1 }

Texts(ps) == [i \in 1..Len(ps) |-> pubkey_to_string(ps[i])]

\* The JSON body of a round-2 request for the payload t.
\* The clusters a round-2 request can name: the three staking requests
\* carry a net field, the two transfer requests carry none ("").
NetsOfRound2(kind) ==
    IF kind \in {"stake", "deactivate", "withdraw"} THEN Networks ELSE {""}

Round2Request(t, hash, kp, keys, first_messages, secret_state, net) ==
    LET signing == [keypair |-> keypair_to_base58_string(kp),
                    recent_block_hash |-> hash_to_string(hash),
                    keys |-> Texts(keys),
                    first_messages |-> first_messages,
                    secret_state |-> secret_state]
    IN CASE t.kind = "send" ->
              signing @@ [amount |-> t.amount, to |-> pubkey_to_string(t.to),
                          memo |-> t.memo]
         [] t.kind = "spl" ->
              signing @@ [amount |-> t.amount, to |-> pubkey_to_string(t.to),
                          token_mint |-> pubkey_to_string(t.token_mint),
                          decimals |-> t.decimals, memo |-> t.memo]
         [] t.kind = "stake" ->
              signing @@ [net |-> net, stake_amount |-> t.stake_amount, seed |-> t.seed,
                          validator_vote_accont |->
                              pubkey_to_string(t.vote_account)]
         [] t.kind = "deactivate" ->
              signing @@ [net |-> net, stake_account |-> pubkey_to_string(t.stake_account)]
         [] t.kind = "withdraw" ->
              signing @@ [net |-> net, stake_account |-> pubkey_to_string(t.stake_account),
                          destination |-> pubkey_to_string(t.destination),
                          amount |-> t.amount]

\* The JSON body of an aggregation request for the payload t.
AggregateRequest(t, hash, keys, signatures, net) ==
    LET agg == [recent_block_hash |-> hash_to_string(hash),
                keys |-> Texts(keys),
                signatures |-> signatures,
                net |-> net]
    IN CASE t.kind = "send" ->
              agg @@ [amount |-> t.amount, to |-> pubkey_to_string(t.to),
                      memo |-> t.memo]
         [] t.kind = "spl" ->
              agg @@ [amount |-> t.amount, to |-> pubkey_to_string(t.to),
                      token_mint |-> pubkey_to_string(t.token_mint),
                      decimals |-> t.decimals, memo |-> t.memo]
         [] t.kind = "stake" ->
              agg @@ [stake_amount |-> t.stake_amount, seed |-> t.seed,
                      validator_vote_accont |->
                          pubkey_to_string(t.vote_account)]
         [] t.kind = "deactivate" ->
              agg @@ [stake_account |-> pubkey_to_string(t.stake_account)]
         [] t.kind = "withdraw" ->
              agg @@ [stake_account |-> pubkey_to_string(t.stake_account),
                      destination |-> pubkey_to_string(t.destination),
                      amount |-> t.amount]

\* What send_transaction and confirm_transaction of the cluster answer.
RpcOutcomes ==
    { r \in [send_ok : BOOLEAN, confirm_ok : BOOLEAN] : r.confirm_ok => r.send_ok }

\* The aggregated keys of the key lists, and the token accounts the chain
\* may hold for them and for the recipients.
AggKeys == { key_agg(PubkeysOf(ks), None).v.agg_public_key : ks \in KeyLists }

AtasOf(wallets) ==
    { get_associated_token_address(w, m) : w \in wallets, m \in Mints }

AccountSets ==
    { {}, AtasOf(Recipients), AtasOf(AggKeys), AtasOf(Recipients \cup AggKeys) }

Rents == {1, 3}

EnvStates ==
    [up : BOOLEAN, accounts : AccountSets, rent : Rents,
     overflow_checks : BOOLEAN]

VARIABLES env, round1, partial, session, last

vars == << env, round1, partial, session, last >>

Idle == [op |-> "idle"]

NoneHeld == [x \in Ids |-> None]

StepTwoOps ==
    {"agg_send_step_two", "spl_agg_send_step_two", "agg_stake_step_two",
     "agg_deactivate_stake_step_two", "agg_withdraw_stake_step_two"}

AggregateOps ==
    {"aggregate_signatures", "spl_aggregate_signatures",
     "aggregate_stake_signatures", "aggregate_deactivate_stake_signatures",
     "aggregate_withdraw_stake_signatures"}

\* The environments of a signing session: the node and the build stay as
\* they are while the session runs.
SessionEnvs ==
    { e \in EnvStates :
        /\ e.overflow_checks /\ e.rent = 1
        /\ e.accounts \in {{}, AtasOf(Recipients \cup AggKeys)}
        /\ (~e.up => e.accounts = {}) }

Init ==
    /\ env \in SessionEnvs
    /\ round1 = NoneHeld
    /\ partial = NoneHeld
    /\ session = None
    /\ last = Idle

\* POST /api/agg_send_step_one by participant x; r is the nonce drawn.
AggSendStepOne(x, r) ==
    /\ last.op = "idle"
    /\ session = None
    /\ LET req == [keypair |-> keypair_to_base58_string(KP(x))]
       IN last' = [op |-> "agg_send_step_one", who |-> x, req |-> req,
                   out |-> agg_send_step_one(req, r)]
    /\ UNCHANGED << env, round1, partial, session >>

\* A signing context: the payload, the blockhash and the key list the
\* participants agreed on.
Contexts(payloads) ==
    { [t |-> t, hash |-> h, keys |-> ks] :
        t \in payloads, h \in Hashes, ks \in KeyLists }

\* The sessions a round-2 request can belong to: the session under way, or
\* a new one among participants who have all finished round 1.
OpenSessions(kind, payloads) ==
    IF session # None
    THEN IF session[1].t.kind = kind THEN { session[1] } ELSE {}
    ELSE { ctx \in Contexts(payloads) :
             \A k \in Range(ctx.keys) : round1[k] # None }

Reverse(s) == [i \in 1..Len(s) |-> s[Len(s) + 1 - i]]

Front(s) == SubSeq(s, 1, Len(s) - 1)

Without(s, x) == SelectSeq(s, LAMBDA y : y # x)

\* The round-2 calls of the session ctx.  A participant who has not signed
\* yet calls with the session's payload and key list and every
\* participant's round-1 message (msgs lists whose messages, in order).
\* With deviations, a participant also calls with another key list or
\* another message list, and a participant who holds a partial signature
\* already calls again, with the same payload or one that differs in a field.
Round2Calls(ctx, payloads, deviations) ==
    LET whole(x) == [who |-> x, t |-> ctx.t, keys |-> ctx.keys, msgs |-> ctx.keys]
        keylists(x) ==
            { ctx.keys, Reverse(ctx.keys), Without(ctx.keys, x), << >>,
              ctx.keys \o << ctx.keys[1] >> }
        msglists(x) ==
            { ctx.keys, Front(ctx.keys), Without(ctx.keys, x),
              ctx.keys \o << ctx.keys[1] >> }
        signed == { k \in Range(ctx.keys) : partial[k] # None }
    IN IF ~deviations
       THEN { whole(x) : x \in Range(ctx.keys) \ signed }
       ELSE UNION { { [whole(x) EXCEPT !.keys = ks, !.msgs = ms] :
                        ks \in keylists(x), ms \in msglists(x) } :
                    x \in Range(ctx.keys) \ signed }
            \cup UNION { { [whole(x) EXCEPT !.t = u] : u \in Near(ctx.t, payloads) } :
                         x \in signed }

\* The round-2 request of the call in the session ctx.
SessionRound2Request(call, ctx, net) ==
    Round2Request(call.t, ctx.hash, KP(call.who), PubkeysOf(call.keys),
                  [i \in 1..Len(call.msgs) |-> round1[call.msgs[i]][1].message_1],
                  round1[call.who][1].secret_state, net)

Signed(op, call, ctx, req, out) ==
    /\ last' = [op |-> op, who |-> call.who, t |-> call.t, hash |-> ctx.hash,
                keys |-> call.keys, signers |-> call.msgs, req |-> req,
                out |-> out]
    /\ session' = Some(ctx)
    /\ UNCHANGED << env, round1, partial >>

\* POST /api/agg_send_step_two
AggSendStepTwo(payloads, deviations) ==
    /\ last.op = "idle"
    /\ \E ctx \in OpenSessions("send", payloads) :
         \E call \in Round2Calls(ctx, payloads, deviations) :
           LET req == SessionRound2Request(call, ctx, "")
           IN Signed("agg_send_step_two", call, ctx, req,
                     agg_send_step_two(req, env))

\* POST /api/spl_agg_send_step_two
SplAggSendStepTwo(payloads, deviations) ==
    /\ last.op = "idle"
    /\ \E ctx \in OpenSessions("spl", payloads) :
         \E call \in Round2Calls(ctx, payloads, deviations) :
           LET req == SessionRound2Request(call, ctx, "")
           IN Signed("spl_agg_send_step_two", call, ctx, req,
                     spl_agg_send_step_two(req, env))

\* POST /api/agg_stake_step_two
AggStakeStepTwo(payloads, deviations) ==
    /\ last.op = "idle"
    /\ \E ctx \in OpenSessions("stake", payloads) :
         \E call \in Round2Calls(ctx, payloads, deviations), net \in Networks :
           LET req == SessionRound2Request(call, ctx, net)
           IN Signed("agg_stake_step_two", call, ctx, req,
                     agg_stake_step_two(req, env))

\* POST /api/agg_deactivate_stake_step_two
AggDeactivateStakeStepTwo(payloads, deviations) ==
    /\ last.op = "idle"
    /\ \E ctx \in OpenSessions("deactivate", payloads) :
         \E call \in Round2Calls(ctx, payloads, deviations), net \in Networks :
           LET req == SessionRound2Request(call, ctx, net)
           IN Signed("agg_deactivate_stake_step_two", call, ctx, req,
                     agg_deactivate_stake_step_two(req, env))

\* POST /api/agg_withdraw_stake_step_two
AggWithdrawStakeStepTwo(payloads, deviations) ==
    /\ last.op = "idle"
    /\ \E ctx \in OpenSessions("withdraw", payloads) :
         \E call \in Round2Calls(ctx, payloads, deviations), net \in Networks :
           LET req == SessionRound2Request(call, ctx, net)
           IN Signed("agg_withdraw_stake_step_two", call, ctx, req,
                     agg_withdraw_stake_step_two(req, env))

\* What the aggregating caller submits for the session under way: the
\* session's payload, blockhash and key list with every partial signature;
\* or one deviation from that: a payload that differs in one field, another
\* blockhash, the keys in another order, a signature or a key left out.
\* With deviations, the key list instead is empty or names a key twice.
Submissions(kind, payloads, deviations) ==
    IF session = None \/ last.op # "idle" THEN {}
    ELSE IF session[1].t.kind # kind THEN {}
    ELSE LET ctx == session[1]
             whole == [t |-> ctx.t, hash |-> ctx.hash, keys |-> ctx.keys,
                       signers |-> ctx.keys]
             twice == ctx.keys \o << ctx.keys[1] >>
             all == IF ~deviations
                    THEN { [whole EXCEPT !.t = u] : u \in Near(ctx.t, payloads) }
                         \cup { [whole EXCEPT !.hash = h] : h \in Hashes }
                         \cup { [whole EXCEPT !.keys = Reverse(ctx.keys),
                                              !.signers = Reverse(ctx.keys)],
                                [whole EXCEPT !.signers = Front(ctx.keys)],
                                [whole EXCEPT !.keys = Front(ctx.keys),
                                              !.signers = Front(ctx.keys)] }
                    ELSE { whole,
                           [whole EXCEPT !.keys = << >>],
                           [whole EXCEPT !.keys = << >>, !.signers = << >>],
                           [whole EXCEPT !.keys = twice],
                           [whole EXCEPT !.keys = twice, !.signers = twice] }
         IN { sub \in all : \A k \in Range(sub.signers) : partial[k] # None }

\* The cluster a request names and what its node answers.
Clusters ==
    { [net |-> "mainnet", rpc |-> r] : r \in RpcOutcomes }
    \cup { [net |-> n, rpc |-> [send_ok |-> TRUE, confirm_ok |-> TRUE]] :
             n \in Networks }

SessionAggregateRequest(sub, net) ==
    AggregateRequest(sub.t, sub.hash, PubkeysOf(sub.keys),
                     [i \in 1..Len(sub.signers) |-> partial[sub.signers[i]][1]],
                     net)

Aggregated(op, sub, req, out) ==
    /\ last' = [op |-> op, who |-> 0, t |-> sub.t, hash |-> sub.hash,
                keys |-> sub.keys, signers |-> sub.signers, req |-> req,
                out |-> out]
    /\ UNCHANGED << env, round1, partial, session >>

\* POST /api/aggregate_signatures
AggregateSignatures(payloads, deviations) ==
    \E sub \in Submissions("send", payloads, deviations), cl \in Clusters :
        LET req == SessionAggregateRequest(sub, cl.net)
        IN Aggregated("aggregate_signatures", sub, req,
                      aggregate_signatures(req, env, cl.rpc))

\* POST /api/spl_aggregate_signatures
SplAggregateSignatures(payloads, deviations) ==
    \E sub \in Submissions("spl", payloads, deviations), cl \in Clusters :
        LET req == SessionAggregateRequest(sub, cl.net)
        IN Aggregated("spl_aggregate_signatures", sub, req,
                      spl_aggregate_signatures(req, env, cl.rpc))

\* POST /api/aggregate_stake_signatures
AggregateStakeSignatures(payloads, deviations) ==
    \E sub \in Submissions("stake", payloads, deviations), cl \in Clusters :
        LET req == SessionAggregateRequest(sub, cl.net)
        IN Aggregated("aggregate_stake_signatures", sub, req,
                      aggregate_stake_signatures(req, env, cl.rpc))

\* POST /api/aggregate_deactivate_stake_signatures
AggregateDeactivateStakeSignatures(payloads, deviations) ==
    \E sub \in Submissions("deactivate", payloads, deviations), cl \in Clusters :
        LET req == SessionAggregateRequest(sub, cl.net)
        IN Aggregated("aggregate_deactivate_stake_signatures", sub, req,
                      aggregate_deactivate_stake_signatures(req, env, cl.rpc))

\* POST /api/aggregate_withdraw_stake_signatures
AggregateWithdrawStakeSignatures(payloads, deviations) ==
    \E sub \in Submissions("withdraw", payloads, deviations), cl \in Clusters :
        LET req == SessionAggregateRequest(sub, cl.net)
        IN Aggregated("aggregate_withdraw_stake_signatures", sub, req,
                      aggregate_withdraw_stake_signatures(req, env, cl.rpc))

\* Key lists as a caller of aggregate_keys may write them: of the
\* participants and one more key, in any order, with repetitions, or empty.
AnyKeyLists == SeqsOf(1..(MaxN + 1), 0, MaxN + 1)

\* POST /api/aggregate_keys, before a session starts
AggregateKeys ==
    /\ last.op = "idle"
    /\ session = None
    /\ \E ks \in AnyKeyLists :
         LET req == [keys |-> Texts(PubkeysOf(ks))]
         IN last' = [op |-> "aggregate_keys", who |-> 0, keys |-> ks,
                     req |-> req, out |-> aggregate_keys(req)]
    /\ UNCHANGED << env, round1, partial, session >>

\* The caller takes the response in flight: a round-1 response is kept for
\* round 2, a participant's first partial signature for the aggregation;
\* the answer to the aggregation request ends the session.  A call that
\* waits for the node has not returned.
Receive ==
    /\ last.op \notin {"idle", "get_account"}
    /\ last' = Idle
    /\ CASE last.op = "agg_send_step_one" ->
              /\ round1' = [round1 EXCEPT ![last.who] =
                              IF last.out.resp.status = 200
                              THEN Some(last.out.resp.body) ELSE @]
              /\ UNCHANGED << partial, session >>
         [] last.op \in StepTwoOps ->
              /\ partial' = [partial EXCEPT ![last.who] =
                               IF last.out.resp.status = 200 /\ @ = None
                               THEN Some(last.out.resp.body.partial_signature)
                               ELSE @]
              /\ UNCHANGED << round1, session >>
         [] last.op \in AggregateOps ->
              /\ round1' = NoneHeld
              /\ partial' = NoneHeld
              /\ session' = None
         [] OTHER -> UNCHANGED << round1, partial, session >>
    /\ UNCHANGED env

\* A signing session: round 1, round 2 by every participant, aggregation.
Next ==
    \/ \E x \in Ids, r \in Nonces : AggSendStepOne(x, r)
    \/ AggSendStepTwo(SendPayloads, FALSE)
    \/ SplAggSendStepTwo(SplPayloads, FALSE)
    \/ AggStakeStepTwo(StakePayloads, FALSE)
    \/ AggDeactivateStakeStepTwo(DeactivatePayloads, FALSE)
    \/ AggWithdrawStakeStepTwo(WithdrawPayloads, FALSE)
    \/ AggregateSignatures(SendPayloads, FALSE)
    \/ SplAggregateSignatures(SplPayloads, FALSE)
    \/ AggregateStakeSignatures(StakePayloads, FALSE)
    \/ AggregateDeactivateStakeSignatures(DeactivatePayloads, FALSE)
    \/ AggregateWithdrawStakeSignatures(WithdrawPayloads, FALSE)
    \/ Receive

Spec == Init /\ [][Next]_vars

\* The payloads of the calls that deviate: the amounts vary, the other
\* fields are fixed.
CallSendPayloads == { t \in SendPayloads : t.to = 11 /\ t.memo = None }

CallSplPayloads ==
    { t \in SplPayloads : t.to = 11 /\ t.memo = None /\ t.decimals = 0 }

CallStakePayloads == { t \in StakePayloads : t.seed = << >> }

CallDeactivatePayloads == DeactivatePayloads

CallWithdrawPayloads ==
    { t \in WithdrawPayloads : t.destination = 11 /\ t.stake_account = 41 }

\* Callers that deviate from the session: any key list to aggregate_keys,
\* round 2 with other key lists or message lists or a secret state used
\* before, aggregation with an empty key list or a key named twice.
NextCalls ==
    \/ \E x \in Ids, r \in Nonces : AggSendStepOne(x, r)
    \/ AggregateKeys
    \/ AggSendStepTwo(CallSendPayloads, TRUE)
    \/ SplAggSendStepTwo(CallSplPayloads, TRUE)
    \/ AggStakeStepTwo(CallStakePayloads, TRUE)
    \/ AggDeactivateStakeStepTwo(CallDeactivatePayloads, TRUE)
    \/ AggWithdrawStakeStepTwo(CallWithdrawPayloads, TRUE)
    \/ AggregateSignatures(CallSendPayloads, TRUE)
    \/ SplAggregateSignatures(CallSplPayloads, TRUE)
    \/ AggregateStakeSignatures(CallStakePayloads, TRUE)
    \/ AggregateDeactivateStakeSignatures(CallDeactivatePayloads, TRUE)
    \/ AggregateWithdrawStakeSignatures(CallWithdrawPayloads, TRUE)
    \/ Receive

SpecCalls == Init /\ [][NextCalls]_vars

(***************************************************************************)
(* The templates on their own: a caller renders a payload for a payer      *)
(* while the chain moves on.                                               *)
(***************************************************************************)
RenderOps ==
    {"create_unsigned_transaction", "create_spl_token_transaction",
     "create_stake_account_transaction", "create_deactivate_stake_transaction",
     "create_withdraw_stake_transaction"}

CreateUnsignedTransaction ==
    /\ last.op = "idle"
    /\ \E t \in SendPayloads, payer \in AggKeys :
         last' = [op |-> "create_unsigned_transaction", who |-> 0, t |-> t,
                  payer |-> payer,
                  out |-> Ok(create_unsigned_transaction(
                                 t.amount, t.to, t.memo, payer))]
    /\ UNCHANGED << env, round1, partial, session >>

\* The token template is called: it derives the two token addresses and
\* asks the node for the sender's token account (spl_token_utils.rs 29).
\* The call in flight holds the accounts of the chain as that lookup found
\* them and waits for the node's answer about the recipient's token account.
CreateSplTokenTransaction ==
    /\ last.op = "idle"
    /\ \E t \in SplPayloads, payer \in AggKeys :
         last' = [op |-> "get_account", who |-> 0, t |-> t, from |-> payer,
                  payer |-> payer, chain |-> Accounts(env)]
    /\ UNCHANGED << env, round1, partial, session >>

\* The node answers the lookup of the recipient's token account
\* (spl_token_utils.rs 42) on the chain as it is now, and the template
\* returns.
CreateSplTokenTransactionReturn ==
    /\ last.op = "get_account"
    /\ last' = [op |-> "create_spl_token_transaction", who |-> 0,
                t |-> last.t, from |-> last.from, payer |-> last.payer,
                chain |-> During(last.chain, Accounts(env)),
                out |-> create_spl_token_transaction(
                            get_token_amount_with_decimals(last.t.amount,
                                                           last.t.decimals),
                            last.from, last.t.to, last.t.token_mint,
                            last.payer, last.t.memo, last.t.decimals,
                            During(last.chain, Accounts(env)))]
    /\ UNCHANGED << env, round1, partial, session >>

CreateStakeAccountTransaction ==
    /\ last.op = "idle"
    /\ \E t \in AnyStakePayloads, payer \in AggKeys :
         last' = [op |-> "create_stake_account_transaction", who |-> 0, t |-> t,
                  payer |-> payer,
                  out |-> create_stake_account_transaction(
                              t.stake_amount, t.seed, payer, t.vote_account, env)]
    /\ UNCHANGED << env, round1, partial, session >>

CreateDeactivateStakeTransaction ==
    /\ last.op = "idle"
    /\ \E t \in DeactivatePayloads, payer \in AggKeys :
         last' = [op |-> "create_deactivate_stake_transaction", who |-> 0,
                  t |-> t, payer |-> payer,
                  out |-> Ok(create_deactivate_stake_transaction(
                                 t.stake_account, payer))]
    /\ UNCHANGED << env, round1, partial, session >>

CreateWithdrawStakeTransaction ==
    /\ last.op = "idle"
    /\ \E t \in WithdrawPayloads, payer \in AggKeys :
         last' = [op |-> "create_withdraw_stake_transaction", who |-> 0,
                  t |-> t, payer |-> payer,
                  out |-> Ok(create_withdraw_stake_transaction(
                                 t.stake_account, t.destination, payer, t.amount))]
    /\ UNCHANGED << env, round1, partial, session >>

\* The testnet node goes up or down, accounts appear or disappear, the rent
\* changes; the build of the process stays what it is.  The chain moves on
\* whether a call waits for the node or not.
ChainStep ==
    /\ \E e \in EnvStates :
         /\ e # env
         /\ e.overflow_checks = env.overflow_checks
         /\ env' = e
    /\ UNCHANGED << round1, partial, session, last >>

InitRender ==
    /\ env \in EnvStates
    /\ round1 = NoneHeld
    /\ partial = NoneHeld
    /\ session = None
    /\ last = Idle

NextRender ==
    \/ CreateUnsignedTransaction
    \/ CreateSplTokenTransaction
    \/ CreateSplTokenTransactionReturn
    \/ CreateStakeAccountTransaction
    \/ CreateDeactivateStakeTransaction
    \/ CreateWithdrawStakeTransaction
    \/ ChainStep
    \/ Receive

SpecRender == InitRender /\ [][NextRender]_vars

(***************************************************************************)
(* The templates with every argument chosen by the caller: the token       *)
(* template takes the owner of the source account (from) and the fee payer *)
(* (payer) as two arguments.  The call in flight holds the chain as the    *)
(* queries of the template found it.                                       *)
(***************************************************************************)
Owners == AggKeys \cup Recipients

CreateSplTokenTransactionFrom ==
    /\ last.op = "idle"
    /\ \E t \in SplPayloads, from \in Owners, payer \in AggKeys :
         last' = [op |-> "get_account", who |-> 0, t |-> t, from |-> from,
                  payer |-> payer, chain |-> Accounts(env)]
    /\ UNCHANGED << env, round1, partial, session >>

\* The memo of a request is absent, present and empty, or present with text.
AnyMemos == Memos \cup {Some(<< >>)}

CreateUnsignedTransactionAnyMemo ==
    /\ last.op = "idle"
    /\ \E t \in SendPayloads, memo \in AnyMemos, payer \in AggKeys :
         last' = [op |-> "create_unsigned_transaction", who |-> 0,
                  t |-> [t EXCEPT !.memo = memo], payer |-> payer,
                  out |-> Ok(create_unsigned_transaction(
                                 t.amount, t.to, memo, payer))]
    /\ UNCHANGED << env, round1, partial, session >>

CreateStakeAccountTransactionOn ==
    /\ last.op = "idle"
    /\ \E t \in AnyStakePayloads, payer \in AggKeys :
         last' = [op |-> "create_stake_account_transaction", who |-> 0, t |-> t,
                  payer |-> payer, chain |-> env,
                  out |-> create_stake_account_transaction(
                              t.stake_amount, t.seed, payer, t.vote_account, env)]
    /\ UNCHANGED << env, round1, partial, session >>

NextTemplates ==
    \/ CreateUnsignedTransactionAnyMemo
    \/ CreateSplTokenTransactionFrom
    \/ CreateSplTokenTransactionReturn
    \/ CreateStakeAccountTransactionOn
    \/ CreateDeactivateStakeTransaction
    \/ CreateWithdrawStakeTransaction
    \/ ChainStep
    \/ Receive

SpecTemplates == InitRender /\ [][NextTemplates]_vars

(***************************************************************************)
(* The stake template on its own.                                          *)
(***************************************************************************)
NextAmounts ==
    \/ CreateStakeAccountTransactionOn
    \/ ChainStep
    \/ Receive

SpecAmounts == InitRender /\ [][NextAmounts]_vars

(***************************************************************************)
(* Sessions whose participants disagree: each participant signs its own    *)
(* view of the session (payload, blockhash, key list, round-1 messages),   *)
(* the aggregating caller submits the session as agreed.                   *)
(***************************************************************************)
\* The sessions a participant's round-2 request can belong to, with the
\* view each participant has signed.
ViewedSessions ==
    IF session # None THEN { session[1] }
    ELSE { [t |-> c.t, hash |-> c.hash, keys |-> c.keys, signed |-> NoneHeld] :
             c \in { d \in Contexts(CallSendPayloads) :
                       \A k \in Range(d.keys) : round1[k] # None } }

\* The views participant x may take of the session ctx: the session's own,
\* or one that differs in one payload field, in the blockhash, in the key
\* list, or in the round-1 messages (its own message in every place).
Views(ctx, x) ==
    LET own == [who |-> x, t |-> ctx.t, hash |-> ctx.hash, keys |-> ctx.keys,
                msgs |-> ctx.keys]
    IN { [own EXCEPT !.t = u] : u \in Near(ctx.t, SendPayloads) }
       \cup { [own EXCEPT !.hash = h] : h \in Hashes }
       \cup { [own EXCEPT !.keys = ks, !.msgs = ks] :
                ks \in { l \in KeyLists :
                           /\ x \in Range(l)
                           /\ \A y \in Range(l) : round1[y] # None } }
       \cup { [own EXCEPT !.msgs = [i \in 1..Len(ctx.keys) |-> x]] }

\* POST /api/agg_send_step_two by a participant that has not signed yet,
\* with its view of the session.
AggSendStepTwoOfView ==
    /\ last.op = "idle"
    /\ \E ctx \in ViewedSessions :
         \E x \in { k \in Range(ctx.keys) : partial[k] = None } :
           \E view \in Views(ctx, x) :
             LET req == SessionRound2Request(view, view, "")
                 out == agg_send_step_two(req, env)
             IN /\ last' = [op |-> "agg_send_step_two", who |-> x, t |-> view.t,
                            hash |-> view.hash, keys |-> view.keys,
                            signers |-> view.msgs, req |-> req, out |-> out]
                /\ session' = Some([ctx EXCEPT !.signed[x] =
                                      IF out.resp.status = 200
                                      THEN Some(view) ELSE @])
    /\ UNCHANGED << env, round1, partial >>

\* POST /api/aggregate_signatures with the session as agreed and every
\* participant's partial signature.
AggregateSignaturesOfViews ==
    /\ last.op = "idle"
    /\ session # None
    /\ \A k \in Range(session[1].keys) : partial[k] # None
    /\ \E cl \in Clusters :
         LET sub == [t |-> session[1].t, hash |-> session[1].hash,
                     keys |-> session[1].keys, signers |-> session[1].keys]
             req == SessionAggregateRequest(sub, cl.net)
         IN last' = [op |-> "aggregate_signatures", who |-> 0, t |-> sub.t,
                     hash |-> sub.hash, keys |-> sub.keys,
                     signers |-> sub.signers, req |-> req,
                     out |-> aggregate_signatures(req, env, cl.rpc)]
    /\ UNCHANGED << env, round1, partial, session >>

NextViews ==
    \/ \E x \in Ids, r \in Nonces : AggSendStepOne(x, r)
    \/ AggSendStepTwoOfView
    \/ AggregateSignaturesOfViews
    \/ Receive

SpecViews == Init /\ [][NextViews]_vars

(***************************************************************************)
(* Requests on their own: a caller posts a request to a route, well formed *)
(* or with one field that does not decode or with an amount at the end of  *)
(* the u64 range, whatever the state of the chain and the build.           *)
(***************************************************************************)
\* The router of main: the handler of the route applied to the request.
\* r is the nonce round 1 draws, rpc what the cluster of the request answers.
Serve(op, req, chain, rpc, r) ==
    CASE op = "aggregate_keys" -> aggregate_keys(req)
      [] op = "agg_send_step_one" -> agg_send_step_one(req, r)
      [] op = "agg_send_step_two" -> agg_send_step_two(req, chain)
      [] op = "spl_agg_send_step_two" -> spl_agg_send_step_two(req, chain)
      [] op = "agg_stake_step_two" -> agg_stake_step_two(req, chain)
      [] op = "agg_deactivate_stake_step_two" ->
           agg_deactivate_stake_step_two(req, chain)
      [] op = "agg_withdraw_stake_step_two" ->
           agg_withdraw_stake_step_two(req, chain)
      [] op = "aggregate_signatures" -> aggregate_signatures(req, chain, rpc)
      [] op = "spl_aggregate_signatures" ->
           spl_aggregate_signatures(req, chain, rpc)
      [] op = "aggregate_stake_signatures" ->
           aggregate_stake_signatures(req, chain, rpc)
      [] op = "aggregate_deactivate_stake_signatures" ->
           aggregate_deactivate_stake_signatures(req, chain, rpc)
      [] op = "aggregate_withdraw_stake_signatures" ->
           aggregate_withdraw_stake_signatures(req, chain, rpc)

\* The payloads a route takes.
PayloadsOf(op) ==
    CASE op \in {"agg_send_step_two", "aggregate_signatures"} -> CallSendPayloads
      [] op \in {"spl_agg_send_step_two", "spl_aggregate_signatures"} ->
           CallSplPayloads
      [] op \in {"agg_stake_step_two", "aggregate_stake_signatures"} ->
           CallStakePayloads
      [] op \in {"agg_deactivate_stake_step_two",
                 "aggregate_deactivate_stake_signatures"} ->
           CallDeactivatePayloads
      [] op \in {"agg_withdraw_stake_step_two",
                 "aggregate_withdraw_stake_signatures"} ->
           CallWithdrawPayloads

\* The round-2 route of a payload.
StepTwoOf(t) ==
    CASE t.kind = "send" -> "agg_send_step_two"
      [] t.kind = "spl" -> "spl_agg_send_step_two"
      [] t.kind = "stake" -> "agg_stake_step_two"
      [] t.kind = "deactivate" -> "agg_deactivate_stake_step_two"
      [] t.kind = "withdraw" -> "agg_withdraw_stake_step_two"

\* The well-formed requests of the MaxN participants for the payload t:
\* participant x drew the nonce x in round 1.
Everyone == [i \in 1..MaxN |-> i]

Round1Of(x) ==
    agg_send_step_one([keypair |-> keypair_to_base58_string(KP(x))], x).resp.body

WellFormedRound2(t, x, net) ==
    Round2Request(t, 51, KP(x), PubkeysOf(Everyone),
                  [i \in 1..MaxN |-> Round1Of(i).message_1],
                  Round1Of(x).secret_state, net)

\* The partial signature participant x holds after round 2 on the chain as
\* it is.
PartialSignatureOf(t, x, chain) ==
    Round2(KP(x), t, 51, PubkeysOf(Everyone),
           [i \in 1..MaxN |-> step_one(KP(i), i).first_msg],
           step_one(KP(x), x).secret, chain)

\* There is no partial signature when round 2 fails.
WellFormedAggregate(t, net, chain) ==
    AggregateRequest(t, 51, PubkeysOf(Everyone),
                     IF PartialSignatureOf(t, 1, chain).ok
                     THEN [i \in 1..MaxN |->
                             PartialSignature_serialize_bs58(
                                 PartialSignatureOf(t, i, chain).v)]
                     ELSE << >>,
                     net)

\* Texts that do not decode: a character outside the alphabet, no byte at
\* all, more bytes than any value has.
BadTexts == { << 58 >>, << >>, Zeros(PUBKEY_BYTES + 1) }

ListFields == {"keys", "first_messages", "signatures"}

TextFields(req) ==
    DOMAIN req \ ({"amount", "memo", "decimals", "stake_amount", "seed", "net"}
                  \cup ListFields)

\* The request with the text written into the field (entry 0) or into an
\* entry of the list field.
Corrupt(req, field, entry, text) ==
    IF entry = 0 THEN [req EXCEPT ![field] = text]
    ELSE IF field = "signatures"
    THEN [req EXCEPT ![field][entry] = [b58 |-> text, h |-> @.h]]
    ELSE [req EXCEPT ![field][entry] = text]

\* What a caller posts instead of the well-formed request: the request
\* itself, the request with one text that does not decode, or the request
\* with its stake_amount at the end of the u64 range.
Variants(req) ==
    { [base |-> req, field |-> "", entry |-> 0, text |-> << >>, req |-> req] }
    \cup { [base |-> req, field |-> f, entry |-> 0, text |-> b,
            req |-> Corrupt(req, f, 0, b)] :
             f \in TextFields(req), b \in BadTexts }
    \cup UNION { { [base |-> req, field |-> f, entry |-> i, text |-> b,
                    req |-> Corrupt(req, f, i, b)] :
                     i \in 1..Len(req[f]), b \in BadTexts } :
                 f \in DOMAIN req \cap ListFields }
    \cup IF "stake_amount" \in DOMAIN req
         THEN { [base |-> req, field |-> "", entry |-> 0, text |-> << >>,
                 req |-> [req EXCEPT !.stake_amount = U64Mod - 1]] }
         ELSE {}

\* The request in flight and its response.
Posted(op, variant, out) ==
    [op |-> op, who |-> 0, base |-> variant.base,
     bad |-> [field |-> variant.field, entry |-> variant.entry,
              text |-> variant.text],
     req |-> variant.req, out |-> out]

\* POST /api/aggregate_keys
PostAggregateKeys ==
    /\ last.op = "idle"
    /\ \E base \in { [keys |-> Texts(PubkeysOf(Everyone))] } :
         \E variant \in Variants(base) :
           last' = Posted("aggregate_keys", variant, aggregate_keys(variant.req))
    /\ UNCHANGED << env, round1, partial, session >>

\* POST /api/agg_send_step_one
PostStepOne ==
    /\ last.op = "idle"
    /\ \E x \in Ids, r \in Nonces :
         \E base \in { [keypair |-> keypair_to_base58_string(KP(x))] } :
           \E variant \in Variants(base) :
             last' = Posted("agg_send_step_one", variant,
                          agg_send_step_one(variant.req, r))
    /\ UNCHANGED << env, round1, partial, session >>

\* POST to one of the five round-2 routes
PostStepTwo ==
    /\ last.op = "idle"
    /\ \E op \in StepTwoOps, x \in Ids :
         \E t \in PayloadsOf(op) :
           \E base \in { WellFormedRound2(t, x, net) : net \in NetsOfRound2(t.kind) } :
             \E variant \in Variants(base) :
               last' = Posted(op, variant,
                              Serve(op, variant.req, env,
                                    [send_ok |-> TRUE, confirm_ok |-> TRUE], 1))
    /\ UNCHANGED << env, round1, partial, session >>

\* POST to one of the five aggregation routes
PostAggregate ==
    /\ last.op = "idle"
    /\ \E op \in AggregateOps, cl \in Clusters :
         \E t \in PayloadsOf(op) :
           \E base \in { WellFormedAggregate(t, cl.net, env) } :
             \E variant \in Variants(base) :
               last' = Posted(op, variant, Serve(op, variant.req, env, cl.rpc, 1))
    /\ UNCHANGED << env, round1, partial, session >>

\* The caller takes the response.
TakeResponse ==
    /\ last.op # "idle"
    /\ last' = Idle
    /\ UNCHANGED << env, round1, partial, session >>

NextRequests ==
    \/ PostAggregateKeys
    \/ PostStepOne
    \/ PostStepTwo
    \/ PostAggregate
    \/ TakeResponse

SpecRequests == InitRender /\ [][NextRequests]_vars

(***************************************************************************)
(* Requests with two fields that do not decode: a caller posts a round-2   *)
(* or aggregation request in which two different fields hold bad texts.    *)
(***************************************************************************)
\* The request with bad texts in two different fields.
PairsOf(req) ==
    UNION { { [base |-> req,
               bads |-> << [field |-> v.field, entry |-> v.entry, text |-> v.text],
                           [field |-> w.field, entry |-> w.entry, text |-> w.text] >>,
               req |-> Corrupt(v.req, w.field, w.entry, w.text)] :
                w \in { u \in Variants(req) : u.field # "" /\ u.field # v.field } } :
            v \in { u \in Variants(req) : u.field # "" } }

PostStepTwoPair ==
    /\ last.op = "idle"
    /\ \E op \in StepTwoOps, x \in Ids :
         \E t \in PayloadsOf(op) :
           \E base \in { WellFormedRound2(t, x, net) : net \in NetsOfRound2(t.kind) } :
             \E pair \in PairsOf(base) :
               last' = [op |-> op, who |-> 0, base |-> pair.base,
                        bads |-> pair.bads, req |-> pair.req,
                        out |-> Serve(op, pair.req, env,
                                      [send_ok |-> TRUE, confirm_ok |-> TRUE], 1)]
    /\ UNCHANGED << env, round1, partial, session >>

PostAggregatePair ==
    /\ last.op = "idle"
    /\ \E op \in AggregateOps, cl \in Clusters :
         \E t \in PayloadsOf(op) :
           \E base \in { WellFormedAggregate(t, cl.net, env) } :
             \E pair \in PairsOf(base) :
               last' = [op |-> op, who |-> 0, base |-> pair.base,
                        bads |-> pair.bads, req |-> pair.req,
                        out |-> Serve(op, pair.req, env, cl.rpc, 1)]
    /\ UNCHANGED << env, round1, partial, session >>

NextDecoding ==
    \/ PostStepTwoPair
    \/ PostAggregatePair
    \/ TakeResponse

SpecDecoding == Init /\ [][NextDecoding]_vars

(***************************************************************************)
(* The broadcasting handlers: a caller posts a well-formed request to a    *)
(* single-signer route or to an aggregation route, for any cluster and any *)
(* outcome of the node's calls, and takes the response.                    *)
(***************************************************************************)
SingleOps ==
    {"send_single", "spl_send_single", "stake_account", "deactivate_stake",
     "withdraw_stake"}

BroadcastOps == SingleOps \cup AggregateOps

\* The outcomes of get_latest_blockhash, send_transaction and
\* confirm_transaction; a call after a failed one is not made.
SingleRpcOutcomes ==
    { r \in [hash_ok : BOOLEAN, send_ok : BOOLEAN, confirm_ok : BOOLEAN] :
        (r.confirm_ok => r.send_ok) /\ (r.send_ok => r.hash_ok) }

\* Seeds within and beyond the length create_with_seed accepts.
AnySeeds == Seeds \cup { << 1, 1 >> }

\* The node of a cluster as the handler's client sees it: the testnet node
\* is the one the templates query.
NodesOf(net) ==
    IF net = "testnet" THEN {env}
    ELSE { e \in EnvStates :
             e.overflow_checks = env.overflow_checks /\ e.rent = env.rent }

PostSendSingle ==
    /\ last.op = "idle"
    /\ \E t \in SendPayloads, x \in Ids, net \in Networks,
          rpc \in SingleRpcOutcomes :
         \E req \in { [net |-> net, keypair |-> keypair_to_base58_string(KP(x)),
                       amount |-> t.amount, to |-> pubkey_to_string(t.to),
                       memo |-> t.memo] } :
           last' = [op |-> "send_single", who |-> 0, req |-> req, rpc |-> rpc,
                    chain |-> env, out |-> send_single(req, rpc)]
    /\ UNCHANGED << env, round1, partial, session >>

PostSplSendSingle ==
    /\ last.op = "idle"
    /\ \E t \in SplPayloads, x \in Ids, net \in Networks,
          rpc \in SingleRpcOutcomes :
         \E node \in NodesOf(net) :
           \E req \in { [net |-> net,
                         keypair |-> keypair_to_base58_string(KP(x)),
                         amount |-> t.amount, to |-> pubkey_to_string(t.to),
                         token_mint |-> pubkey_to_string(t.token_mint),
                         decimals |-> t.decimals, memo |-> t.memo] } :
             last' = [op |-> "spl_send_single", who |-> 0, req |-> req,
                      rpc |-> rpc, chain |-> env, node |-> node,
                      out |-> spl_send_single(req, node, rpc)]
    /\ UNCHANGED << env, round1, partial, session >>

PostStakeAccount ==
    /\ last.op = "idle"
    /\ \E t \in StakePayloads, seed \in AnySeeds, x \in Ids, net \in Networks,
          rpc \in SingleRpcOutcomes :
         \E req \in { [net |-> net, keypair |-> keypair_to_base58_string(KP(x)),
                       stake_amount |-> t.stake_amount, seed |-> seed,
                       validator_vote_accont |->
                         pubkey_to_string(t.vote_account)] } :
           last' = [op |-> "stake_account", who |-> 0, req |-> req, rpc |-> rpc,
                    chain |-> env, payer |-> KP(x).public,
                    out |-> stake_account(req, env, rpc)]
    /\ UNCHANGED << env, round1, partial, session >>

PostDeactivateStake ==
    /\ last.op = "idle"
    /\ \E t \in DeactivatePayloads, x \in Ids, net \in Networks,
          rpc \in SingleRpcOutcomes :
         \E req \in { [net |-> net, keypair |-> keypair_to_base58_string(KP(x)),
                       stake_account |-> pubkey_to_string(t.stake_account)] } :
           last' = [op |-> "deactivate_stake", who |-> 0, req |-> req,
                    rpc |-> rpc, chain |-> env,
                    out |-> deactivate_stake(req, rpc)]
    /\ UNCHANGED << env, round1, partial, session >>

PostWithdrawStake ==
    /\ last.op = "idle"
    /\ \E t \in WithdrawPayloads, x \in Ids, net \in Networks,
          rpc \in SingleRpcOutcomes :
         \E req \in { [net |-> net, keypair |-> keypair_to_base58_string(KP(x)),
                       stake_account |-> pubkey_to_string(t.stake_account),
                       destination |-> pubkey_to_string(t.destination),
                       amount |-> t.amount] } :
           last' = [op |-> "withdraw_stake", who |-> 0, req |-> req,
                    rpc |-> rpc, chain |-> env,
                    out |-> withdraw_stake(req, rpc)]
    /\ UNCHANGED << env, round1, partial, session >>

PostAggregateTo ==
    /\ last.op = "idle"
    /\ \E op \in AggregateOps, net \in Networks, rpc \in SingleRpcOutcomes :
         \E t \in PayloadsOf(op) :
           \E req \in { WellFormedAggregate(t, net, env) } :
             last' = [op |-> op, who |-> 0, req |-> req, rpc |-> rpc,
                      chain |-> env, out |-> Serve(op, req, env, rpc, 1)]
    /\ UNCHANGED << env, round1, partial, session >>

NextBroadcast ==
    \/ PostSendSingle
    \/ PostSplSendSingle
    \/ PostStakeAccount
    \/ PostDeactivateStake
    \/ PostWithdrawStake
    \/ PostAggregateTo
    \/ TakeResponse

SpecBroadcast == InitRender /\ [][NextBroadcast]_vars

(***************************************************************************)
(* The boundary codecs on their own: a text is decoded, a value encoded.   *)
(***************************************************************************)
CodecKinds ==
    {"pubkey", "keypair", "message_1", "secret_state", "partial_signature"}

DecodeText(kind, text) ==
    CASE kind = "pubkey" -> parse_pubkey(text)
      [] kind = "keypair" -> parse_keypair_bs58(text)
      [] kind = "message_1" -> AggMessage1_deserialize_bs58(text)
      [] kind = "secret_state" -> SecretAggStepOne_deserialize_bs58(text)
      [] kind = "partial_signature" -> PartialSignature_deserialize_bs58(text)

EncodeValue(kind, value) ==
    CASE kind = "pubkey" -> pubkey_to_string(value)
      [] kind = "keypair" -> keypair_to_base58_string(value)
      [] kind = "message_1" -> AggMessage1_serialize_bs58(value)
      [] kind = "secret_state" -> SecretAggStepOne_serialize_bs58(value)
      [] kind = "partial_signature" -> PartialSignature_serialize_bs58(value)

\* Texts of at most MaxText characters: the first letters of the alphabet,
\* the last one, and a character outside it.
MaxText == 4

Base58Texts == SeqsOf({0, 1, 2, 4, 57, 58}, 0, MaxText)

\* The challenge of some partial signature.
SomeChallenge ==
    Challenge(7, 14, create_unsigned_transaction(2, 11, None, 14).message)

CodecTexts(kind) ==
    IF kind = "partial_signature"
    THEN { [b58 |-> b, h |-> SomeChallenge] : b \in Base58Texts }
    ELSE Base58Texts

\* Bytes and residues at both ends of their ranges.
CodecValues(kind) ==
    CASE kind = "pubkey" ->
           (0..255) \cup AtasOf({11}) \cup {STAKE_PROGRAM, 256^PUBKEY_BYTES - 1}
      [] kind = "keypair" ->
           [secret : {0, 1, 2, 255}, public : {0, 7, 14, L - 1}]
      [] kind = "message_1" -> [R : 0..(L - 1)]
      [] kind = "secret_state" -> [r : {0, 1, 2, L - 1}, R : {0, 7, L - 1}]
      [] kind = "partial_signature" ->
           { [R |-> R, s |-> Scalar(k, SomeChallenge, m), c |-> SomeChallenge] :
               R \in {0, 7, L - 1}, k \in {0, 1, L - 1}, m \in {0, 1, L - 1} }

\* A text arrives in a request and is decoded.
Decode ==
    /\ last.op = "idle"
    /\ \E kind \in CodecKinds :
         \E text \in CodecTexts(kind) :
           last' = [op |-> "decode", who |-> 0, kind |-> kind, text |-> text,
                    out |-> DecodeText(kind, text)]
    /\ UNCHANGED << env, round1, partial, session >>

\* A value leaves in a response, encoded.
Encode ==
    /\ last.op = "idle"
    /\ \E kind \in CodecKinds :
         \E value \in CodecValues(kind) :
           last' = [op |-> "encode", who |-> 0, kind |-> kind, value |-> value,
                    text |-> EncodeValue(kind, value)]
    /\ UNCHANGED << env, round1, partial, session >>

NextCodec ==
    \/ Decode
    \/ Encode
    \/ TakeResponse

SpecCodec == Init /\ [][NextCodec]_vars

(***************************************************************************)
(* Concurrent requests: every participant runs token-transfer sessions of  *)
(* its own (it is the only signer) and a caller outside the sessions posts *)
(* the requests that send a transaction or ask for an airdrop: the         *)
(* single-signer transfers, stake and withdrawal, and the aggregations of  *)
(* sessions of all the participants.  The server handles the requests in   *)
(* parallel: last[c] is the request of caller c in flight, and a handler   *)
(* that waits for a node lets the others run.  The testnet cluster         *)
(* executes what it confirms: the accounts a transaction creates or funds  *)
(* exist afterwards.  Requests that leave the accounts of the chain as     *)
(* they are (balances, block hashes, deactivations) are not posted.        *)
(***************************************************************************)
\* The chain before any request: the signers hold token accounts, the
\* recipients hold none.
FreshChain ==
    [up |-> TRUE, accounts |-> AtasOf(AggKeys), rent |-> 1,
     overflow_checks |-> TRUE]

\* The transfers of the concurrent requests: one token to the recipient 11.
SharedPayloads ==
    { t \in SplPayloads :
        t.memo = None /\ t.decimals = 0 /\ t.amount = 2 /\ t.to = 11 }

\* The callers: the participants and the caller outside the sessions.
Outsider == MaxN + 1

Callers == Ids \cup {Outsider}

\* The draw of round 1 in the concurrent sessions.
SharedNonces == {1}

\* The participants whose keypair the outside caller signs with.
SharedSigners == {1}

\* Where the outside caller sends funds: the token address of the recipient
\* and the recipient 11.
SharedTargets == AtasOf({11}) \cup {11}

\* The payloads of the outside caller's transfers, stakes and withdrawals.
SharedSendPayloads ==
    { t \in SendPayloads : t.memo = None /\ t.amount = 2 /\ t.to = 11 }

SharedStakePayloads ==
    { t \in StakePayloads : t.seed = << >> /\ t.stake_amount = 1 }

SharedWithdrawPayloads ==
    { t \in WithdrawPayloads :
        t.stake_account = 41 /\ t.destination = 11 /\ t.amount = 2 }

\* The clusters of the requests and what their nodes answer: the testnet
\* cluster, which answers every call, and a cluster that refuses what is
\* sent to it.
SharedClusters == { cl \in Clusters : cl.net = "testnet" \/ ~cl.rpc.send_ok }

SingleClusters ==
    { [net |-> cl.net,
       rpc |-> [hash_ok |-> TRUE, send_ok |-> cl.rpc.send_ok,
                confirm_ok |-> cl.rpc.confirm_ok]] : cl \in SharedClusters }

AirdropClusters ==
    { [net |-> cl.net,
       rpc |-> [airdrop_ok |-> cl.rpc.send_ok, hash_ok |-> cl.rpc.send_ok,
                confirm_ok |-> cl.rpc.confirm_ok]] : cl \in SharedClusters }

\* The instruction creates or funds its second account: the associated
\* token account of a creation, the recipient of a system transfer, the new
\* account of a creation with seed, the destination of a stake withdrawal.
Funds(ins) ==
    \/ ins.program_id \in {ATA_PROGRAM, SYSTEM_PROGRAM}
    \/ ins.program_id = STAKE_PROGRAM /\ ins.data[1] = "Withdraw"

\* The chain after the cluster `net` confirmed the transaction: the testnet
\* chain holds the accounts the transaction creates or funds.
Executed(chain, net, out) ==
    IF net = "testnet" /\ out.resp.status = 200
    THEN [chain EXCEPT !.accounts =
            @ \cup { out.sent[1].message.instructions[i].accounts[2].pubkey :
                       i \in { j \in 1..Len(out.sent[1].message.instructions) :
                                 Funds(out.sent[1].message.instructions[j]) } }]
    ELSE chain

\* The chain after the cluster confirmed what the request in flight asked
\* for: an airdrop funds its address, a transaction is executed.
Confirmed(chain, flight) ==
    IF flight.op = "airdrop"
    THEN IF flight.req.net = "testnet" /\ flight.out.resp.status = 200
         THEN [chain EXCEPT !.accounts = @ \cup {parse_pubkey(flight.req.to).v}]
         ELSE chain
    ELSE Executed(chain, flight.req.net, flight.out)

\* The calls of a handler that wait for the cluster after the handler has
\* its message.
ClusterCalls ==
    {"request_airdrop", "get_latest_blockhash", "send_transaction",
     "confirm_transaction"}

Waits(out) == SelectSeq(out.calls, LAMBDA c : c.op \in ClusterCalls)

\* What the first lookup of the token template reads of the chain: whether
\* the node answers and the token account of the sender, an aggregated key.
SenderLookup(chain) == [chain EXCEPT !.accounts = @ \cap AtasOf(AggKeys)]

\* The request in flight waits for the node's answer to the second lookup
\* of the token template.
AtLookup(flight) == flight.op # "idle" /\ "out" \notin DOMAIN flight

\* The handler of the request in flight has answered.
Answered(flight) == "out" \in DOMAIN flight /\ flight.left = << >>

InitShared ==
    /\ env = FreshChain
    /\ round1 = NoneHeld
    /\ partial = NoneHeld
    /\ session = NoneHeld
    /\ last = [c \in Callers |-> Idle]

\* POST /api/agg_send_step_one by participant x
SharedStepOne ==
    /\ \E x \in Ids, r \in SharedNonces :
         /\ last[x].op = "idle"
         /\ round1[x] = None
         /\ LET req == [keypair |-> keypair_to_base58_string(KP(x))]
            IN last' = [last EXCEPT ![x] =
                          [op |-> "agg_send_step_one", who |-> x, r |-> r,
                           rpc |-> [send_ok |-> TRUE, confirm_ok |-> TRUE],
                           req |-> req, out |-> agg_send_step_one(req, r),
                           left |-> << >>]]
    /\ UNCHANGED << env, round1, partial, session >>

\* POST /api/spl_agg_send_step_two by participant x, the only signer: the
\* handler decodes the request and the template asks the testnet node for
\* the sender's token account (spl_token_utils.rs 29).
SharedSplStepTwo ==
    /\ \E x \in Ids, t \in SharedPayloads :
         /\ last[x].op = "idle"
         /\ round1[x] # None
         /\ partial[x] = None
         /\ LET req == Round2Request(t, 51, KP(x), << KP(x).public >>,
                                     << round1[x][1].message_1 >>,
                                     round1[x][1].secret_state, "")
            IN last' = [last EXCEPT ![x] =
                          [op |-> "spl_agg_send_step_two", who |-> x, r |-> 1,
                           rpc |-> [send_ok |-> TRUE, confirm_ok |-> TRUE],
                           req |-> req, chain |-> SenderLookup(env)]]
         /\ session' = [session EXCEPT ![x] = Some(t)]
    /\ UNCHANGED << env, round1, partial >>

\* POST /api/spl_aggregate_signatures for the session of participant x: the
\* handler decodes the request and the template asks the testnet node for
\* the sender's token account.
SharedSplAggregate ==
    /\ \E x \in Ids, cl \in SharedClusters :
         /\ last[x].op = "idle"
         /\ partial[x] # None
         /\ LET req == AggregateRequest(session[x][1], 51, << KP(x).public >>,
                                        << partial[x][1] >>, cl.net)
            IN last' = [last EXCEPT ![x] =
                          [op |-> "spl_aggregate_signatures", who |-> x,
                           r |-> 1, rpc |-> cl.rpc, req |-> req,
                           chain |-> SenderLookup(env)]]
    /\ UNCHANGED << env, round1, partial, session >>

\* The testnet node answers the template's lookup of the recipient's token
\* account (spl_token_utils.rs 42) on the chain as it is now; the handler
\* renders the message and signs it (round 2) or verifies the aggregated
\* signature (aggregation), and answers or goes on to the cluster.
SharedLookup ==
    /\ \E x \in Ids :
         /\ AtLookup(last[x])
         /\ \E out \in { Serve(last[x].op, last[x].req,
                               During(last[x].chain, env), last[x].rpc,
                               last[x].r) } :
              last' = [last EXCEPT ![x] =
                         [op |-> last[x].op, who |-> x, r |-> last[x].r,
                          rpc |-> last[x].rpc, req |-> last[x].req,
                          out |-> out, left |-> Waits(out)]]
    /\ UNCHANGED << env, round1, partial, session >>

\* POST /api/spl_send_single by the outside caller with the keypair of
\* participant x: the handler asks the node of the request's cluster for the
\* recipient's token account and builds the transaction.
SharedSplSendSingle ==
    /\ last[Outsider].op = "idle"
    /\ \E t \in SharedPayloads, x \in Ids, cl \in SingleClusters :
         \E req \in { [net |-> cl.net,
                       keypair |-> keypair_to_base58_string(KP(x)),
                       amount |-> t.amount, to |-> pubkey_to_string(t.to),
                       token_mint |-> pubkey_to_string(t.token_mint),
                       decimals |-> t.decimals, memo |-> t.memo] } :
           \E out \in { spl_send_single(req, node, cl.rpc) :
                           node \in NodesOf(cl.net) } :
             last' = [last EXCEPT ![Outsider] =
                        [op |-> "spl_send_single", who |-> Outsider,
                         req |-> req, rpc |-> cl.rpc, out |-> out,
                         left |-> Waits(out)]]
    /\ UNCHANGED << env, round1, partial, session >>

\* POST /api/airdrop by the outside caller: the handler asks the cluster for
\* the airdrop.
SharedAirdrop ==
    /\ last[Outsider].op = "idle"
    /\ \E to \in SharedTargets, cl \in AirdropClusters :
         \E req \in { [to |-> pubkey_to_string(to), amount |-> 2,
                       net |-> cl.net] } :
           \E out \in { airdrop(req, cl.rpc) } :
             last' = [last EXCEPT ![Outsider] =
                        [op |-> "airdrop", who |-> Outsider, req |-> req,
                         rpc |-> cl.rpc, out |-> out, left |-> Waits(out)]]
    /\ UNCHANGED << env, round1, partial, session >>

\* POST /api/send_single by the outside caller with the keypair of
\* participant x: the handler builds the transfer and goes on to the cluster.
SharedSendSingle ==
    /\ last[Outsider].op = "idle"
    /\ \E t \in SharedSendPayloads, to \in SharedTargets, x \in SharedSigners,
          cl \in SingleClusters :
         \E req \in { [net |-> cl.net,
                       keypair |-> keypair_to_base58_string(KP(x)),
                       amount |-> t.amount, to |-> pubkey_to_string(to),
                       memo |-> t.memo] } :
           \E out \in { send_single(req, cl.rpc) } :
             last' = [last EXCEPT ![Outsider] =
                        [op |-> "send_single", who |-> Outsider, req |-> req,
                         rpc |-> cl.rpc, out |-> out, left |-> Waits(out)]]
    /\ UNCHANGED << env, round1, partial, session >>

\* POST /api/stake by the outside caller: the template asks the testnet node
\* for the rent, the handler goes on to the cluster.
SharedStakeAccount ==
    /\ last[Outsider].op = "idle"
    /\ \E t \in SharedStakePayloads, x \in SharedSigners, cl \in SingleClusters :
         \E req \in { [net |-> cl.net,
                       keypair |-> keypair_to_base58_string(KP(x)),
                       stake_amount |-> t.stake_amount, seed |-> t.seed,
                       validator_vote_accont |->
                         pubkey_to_string(t.vote_account)] } :
           \E out \in { stake_account(req, env, cl.rpc) } :
             last' = [last EXCEPT ![Outsider] =
                        [op |-> "stake_account", who |-> Outsider, req |-> req,
                         rpc |-> cl.rpc, out |-> out, left |-> Waits(out)]]
    /\ UNCHANGED << env, round1, partial, session >>

\* POST /api/withdraw_stake by the outside caller
SharedWithdrawStake ==
    /\ last[Outsider].op = "idle"
    /\ \E t \in SharedWithdrawPayloads, to \in SharedTargets,
          x \in SharedSigners, cl \in SingleClusters :
         \E req \in { [net |-> cl.net,
                       keypair |-> keypair_to_base58_string(KP(x)),
                       stake_account |-> pubkey_to_string(t.stake_account),
                       destination |-> pubkey_to_string(to),
                       amount |-> t.amount] } :
           \E out \in { withdraw_stake(req, cl.rpc) } :
             last' = [last EXCEPT ![Outsider] =
                        [op |-> "withdraw_stake", who |-> Outsider, req |-> req,
                         rpc |-> cl.rpc, out |-> out, left |-> Waits(out)]]
    /\ UNCHANGED << env, round1, partial, session >>

\* POST /api/aggregate_signatures by the outside caller, for a session of
\* all the participants: the handler verifies the aggregated signature and
\* goes on to the cluster.
SharedAggregateSignatures ==
    /\ last[Outsider].op = "idle"
    /\ \E t \in SharedSendPayloads, cl \in SharedClusters :
         \E req \in { WellFormedAggregate(t, cl.net, env) } :
           \E out \in { aggregate_signatures(req, env, cl.rpc) } :
             last' = [last EXCEPT ![Outsider] =
                        [op |-> "aggregate_signatures", who |-> Outsider,
                         req |-> req, rpc |-> cl.rpc, out |-> out,
                         left |-> Waits(out)]]
    /\ UNCHANGED << env, round1, partial, session >>

\* POST /api/aggregate_stake_signatures by the outside caller
SharedAggregateStakeSignatures ==
    /\ last[Outsider].op = "idle"
    /\ \E t \in SharedStakePayloads, cl \in SharedClusters :
         \E req \in { WellFormedAggregate(t, cl.net, env) } :
           \E out \in { aggregate_stake_signatures(req, env, cl.rpc) } :
             last' = [last EXCEPT ![Outsider] =
                        [op |-> "aggregate_stake_signatures", who |-> Outsider,
                         req |-> req, rpc |-> cl.rpc, out |-> out,
                         left |-> Waits(out)]]
    /\ UNCHANGED << env, round1, partial, session >>

\* POST /api/aggregate_withdraw_stake_signatures by the outside caller
SharedAggregateWithdrawStakeSignatures ==
    /\ last[Outsider].op = "idle"
    /\ \E t \in SharedWithdrawPayloads, cl \in SharedClusters :
         \E req \in { WellFormedAggregate(t, cl.net, env) } :
           \E out \in { aggregate_withdraw_stake_signatures(req, env, cl.rpc) } :
             last' = [last EXCEPT ![Outsider] =
                        [op |-> "aggregate_withdraw_stake_signatures",
                         who |-> Outsider, req |-> req, rpc |-> cl.rpc,
                         out |-> out, left |-> Waits(out)]]
    /\ UNCHANGED << env, round1, partial, session >>

\* The cluster answers the call a handler waits for; with the answer to
\* confirm_transaction the testnet chain holds what the cluster confirmed.
SharedClusterAnswers ==
    /\ \E c \in Callers :
         /\ "out" \in DOMAIN last[c]
         /\ last[c].left # << >>
         /\ last' = [last EXCEPT ![c].left = Tail(@)]
         /\ env' = IF Head(last[c].left).op = "confirm_transaction"
                   THEN Confirmed(env, last[c])
                   ELSE env
    /\ UNCHANGED << round1, partial, session >>

\* A caller takes the response: a round-1 response is kept for round 2, a
\* partial signature for the aggregation, the answer to the aggregation
\* ends the caller's session.
SharedTake ==
    /\ \E c \in Callers :
         /\ Answered(last[c])
         /\ last' = [last EXCEPT ![c] = Idle]
         /\ CASE last[c].op = "agg_send_step_one" ->
                   /\ round1' = [round1 EXCEPT ![c] =
                                   IF last[c].out.resp.status = 200
                                   THEN Some(last[c].out.resp.body) ELSE @]
                   /\ UNCHANGED << partial, session >>
              [] last[c].op = "spl_agg_send_step_two" ->
                   /\ partial' = [partial EXCEPT ![c] =
                                    IF last[c].out.resp.status = 200
                                    THEN Some(last[c].out.resp.body.partial_signature)
                                    ELSE @]
                   /\ UNCHANGED << round1, session >>
              [] last[c].op = "spl_aggregate_signatures" ->
                   /\ round1' = [round1 EXCEPT ![c] = None]
                   /\ partial' = [partial EXCEPT ![c] = None]
                   /\ session' = [session EXCEPT ![c] = None]
              [] OTHER -> UNCHANGED << round1, partial, session >>
    /\ UNCHANGED env

NextShared ==
    \/ SharedStepOne
    \/ SharedSplStepTwo
    \/ SharedSplAggregate
    \/ SharedLookup
    \/ SharedSplSendSingle
    \/ SharedAirdrop
    \/ SharedSendSingle
    \/ SharedStakeAccount
    \/ SharedWithdrawStake
    \/ SharedAggregateSignatures
    \/ SharedAggregateStakeSignatures
    \/ SharedAggregateWithdrawStakeSignatures
    \/ SharedClusterAnswers
    \/ SharedTake

SpecShared == InitShared /\ [][NextShared]_vars

(***************************************************************************)
(* Properties of the signing session (specification Spec).                 *)
(***************************************************************************)
\* The aggregation request in flight carries the session's payload,
\* blockhash and keys (in any order) and every participant's partial
\* signature.
WholeSubmission ==
    /\ last.op \in AggregateOps
    /\ session # None
    /\ last.t = session[1].t
    /\ last.hash = session[1].hash
    /\ Range(last.keys) = Range(session[1].keys)
    /\ last.signers = last.keys

\* The aggregated key of the request in flight and the message its payload
\* renders for that key.
AggKeyOfLast == key_agg(PubkeysOf(last.keys), None)

RenderedOfLast == RenderTemplate(last.t, AggKeyOfLast.v.agg_public_key, env)

MessageOfLast ==
    [RenderedOfLast.v.message EXCEPT !.recent_blockhash = last.hash]

\* The transaction in `sent` is the rendered message under a signature that
\* verifies against the aggregated key.
SentVerifies ==
    /\ AggKeyOfLast.ok
    /\ RenderedOfLast.ok
    /\ Len(last.out.sent) = 1
    /\ last.out.sent[1].message = MessageOfLast
    /\ Len(last.out.sent[1].signatures) = 1
    /\ Verify(last.out.sent[1].signatures[1].R, last.out.sent[1].signatures[1].s,
              AggKeyOfLast.v.agg_public_key, MessageOfLast)

\* C1: for every number of signers up to MaxN and every native-transfer
\* payload, when each signer ran round 1 and then round 2 with the full list
\* of round-1 messages, aggregating the N partial signatures yields a
\* transaction whose signature verifies against the aggregated public key
\* over the rendered message.
C1_HappyPathVerifies ==
    (last.op = "aggregate_signatures" /\ WholeSubmission) => SentVerifies

C1_Witness ==
    /\ last.op = "aggregate_signatures"
    /\ WholeSubmission
    /\ Len(last.keys) = MaxN
    /\ last.t.memo # None
    /\ last.out.resp.status = 200
    /\ SentVerifies

\* The aggregation request in flight deviates from the session in its
\* payload or blockhash only.
Tampered ==
    /\ last.op = "aggregate_signatures"
    /\ session # None
    /\ last.keys = session[1].keys
    /\ last.signers = last.keys
    /\ (last.t # session[1].t \/ last.hash # session[1].hash)

Rejected ==
    /\ last.out.resp.status = 400
    /\ last.out.resp.error = "InvalidSignature"
    /\ last.out.sent = << >>

\* The deviation changes the recipient, the memo, the blockhash or the
\* number of lamports the amount stands for.
TamperChangesMessage ==
    \/ last.t.to # session[1].t.to
    \/ last.t.memo # session[1].t.memo
    \/ last.hash # session[1].hash
    \/ sol_to_lamports(last.t.amount) # sol_to_lamports(session[1].t.amount)

\* C2 (as stated): partial signatures computed over one payload, presented
\* with a payload that differs in any field (amount, recipient, memo or
\* blockhash; any two distinct amounts included), make the aggregation fail
\* verification and no transaction is produced.
C2_AnyTamperRejected == Tampered => Rejected

\* C2 (amended): the aggregation fails with InvalidSignature exactly when the
\* deviation changes the recipient, the memo, the blockhash or the lamports
\* sol_to_lamports(amount); two amounts that truncate to the same number of
\* lamports render the same message and the aggregation succeeds.
C2_MessageTamperRejected ==
    Tampered => IF TamperChangesMessage THEN Rejected ELSE SentVerifies

C2_Witness ==
    /\ Tampered
    /\ last.t.amount # session[1].t.amount
    /\ TamperChangesMessage
    /\ Rejected

\* The assembled signature of the aggregation request in flight does not
\* verify: the key list aggregates and the payload renders, but there is no
\* signature, or the sum of the partial signatures fails verification.
Unverified ==
    /\ AggKeyOfLast.ok
    /\ RenderedOfLast.ok
    /\ LET sigs == [i \in 1..Len(last.req.signatures) |->
                      PartialSignature_deserialize_bs58(last.req.signatures[i]).v]
       IN \/ sigs = << >>
          \/ ~Verify(sigs[1].R,
                     ScalarSum([i \in 1..Len(sigs) |-> sigs[i].s]),
                     AggKeyOfLast.v.agg_public_key, MessageOfLast)

SendCalls ==
    { i \in 1..Len(last.out.calls) : last.out.calls[i].op = "send_transaction" }

\* C3: in each of the five aggregation handlers, when the assembled
\* signature does not verify the handler answers with the InvalidSignature
\* error and send_transaction is never invoked; a broadcast happens only
\* after the aggregation routine returned a verified transaction.
C3_UnverifiedNeverBroadcast ==
    last.op \in AggregateOps =>
        /\ Unverified => (Rejected /\ SendCalls = {})
        /\ SendCalls # {} =>
             (1 \notin SendCalls /\ Cardinality(SendCalls) = 1 /\ SentVerifies)

C3_Witness ==
    /\ last.op = "aggregate_withdraw_stake_signatures"
    /\ last.req.signatures # << >>
    /\ Unverified
    /\ Rejected
    /\ SendCalls = {}


(***************************************************************************)
(* Properties of the calls that deviate (specification SpecCalls).         *)
(***************************************************************************)
\* The round-2 request in flight presents a secret state that an earlier
\* round-2 call has consumed: its caller holds the partial signature that
\* call returned for the round-1 output still in hand.
PresentsConsumedState ==
    /\ last.op \in StepTwoOps
    /\ partial[last.who] # None

\* C4: once a round-2 call has consumed a SecretState, no later round-2 call
\* of any kind that presents the same SecretState succeeds; the same
\* SecretState never yields two partial signatures over different payloads.
C4_ConsumedStateRejected ==
    PresentsConsumedState => last.out.resp.status # 200

Orderings(s) ==
    { [i \in 1..Len(s) |-> s[f[i]]] :
        f \in { g \in [1..Len(s) -> 1..Len(s)] :
                  \A i, j \in 1..Len(s) : g[i] = g[j] => i = j } }

\* C6: key aggregation is order-independent: for every key list and every
\* permutation of it, aggregate_keys gives the same response (the same
\* aggregated public key).
C6_KeyAggregationOrderIndependent ==
    last.op = "aggregate_keys" =>
        \A p \in Orderings(last.req.keys) :
            aggregate_keys([keys |-> p]).resp = last.out.resp

C6_Witness ==
    /\ last.op = "aggregate_keys"
    /\ Len(last.keys) = MaxN + 1
    /\ NoDup(last.keys)
    /\ last.keys # SortKeys(last.keys)
    /\ last.out.resp.status = 200

NoPartialSignature ==
    /\ last.out.resp.status = 400
    /\ last.out.resp.body = << >>

\* C7: a round-2 call whose list of round-1 messages has another length than
\* its key list fails with MismatchMessages, whatever else is wrong with its
\* key list or its message list (the caller absent, a key named twice, an
\* empty list: the check comes before the other validations and before any
\* arithmetic), and no partial signature is produced.
C7_MismatchMessagesFirst ==
    (last.op \in StepTwoOps
       /\ Len(last.req.first_messages) # Len(last.req.keys)) =>
        (NoPartialSignature /\ last.out.resp.error = "MismatchMessages")

C7_Witness ==
    /\ last.op \in StepTwoOps
    /\ Len(last.req.first_messages) # Len(last.req.keys)
    /\ last.who \notin Range(last.keys)
    /\ last.req.keys # << >>
    /\ NoPartialSignature
    /\ last.out.resp.error = "MismatchMessages"

\* The key list of the round-2 request in flight lacks the caller's key.
CallerAbsent ==
    /\ last.op \in StepTwoOps
    /\ pubkey_to_string(KP(last.who).public) \notin Range(last.req.keys)

\* C8 (as stated): a round-2 call whose key list does not contain the public
\* key of the caller's keypair fails with KeyPairIsNotInKeys and returns no
\* partial signature.
C8_AbsentCallerRejected ==
    CallerAbsent =>
        (NoPartialSignature /\ last.out.resp.error = "KeyPairIsNotInKeys")

\* C8 (amended): such a call returns no partial signature; it fails with
\* KeyPairIsNotInKeys when it has as many round-1 messages as keys, and with
\* MismatchMessages when it has not.
C8_AbsentCallerRejectedInOrder ==
    CallerAbsent =>
        /\ NoPartialSignature
        /\ last.out.resp.error =
             IF Len(last.req.first_messages) = Len(last.req.keys)
             THEN "KeyPairIsNotInKeys" ELSE "MismatchMessages"

C8_Witness ==
    /\ CallerAbsent
    /\ last.req.keys # << >>
    /\ Len(last.req.first_messages) = Len(last.req.keys)
    /\ NoPartialSignature
    /\ last.out.resp.error = "KeyPairIsNotInKeys"

\* The request in flight carries a key list that is empty or names a key
\* twice.
BadKeyList ==
    /\ last.op \in {"aggregate_keys"} \cup StepTwoOps \cup AggregateOps
    /\ (last.req.keys = << >> \/ ~NoDup(last.req.keys))

\* C9: key aggregation, round 2 and aggregation reject a key list that names
\* a key twice or is empty: the response is an error, and no aggregated key,
\* partial signature or transaction is produced.
C9_BadKeyListRejected ==
    BadKeyList =>
        /\ last.out.resp.status = 400
        /\ last.out.resp.body = << >>
        /\ last.out.sent = << >>
        /\ \A i \in 1..Len(last.out.calls) :
             last.out.calls[i].op # "send_transaction"

C9_Witness ==
    /\ last.op \in AggregateOps
    /\ ~NoDup(last.req.keys)
    /\ Len(last.req.signatures) = MaxN
    /\ last.out.resp.status = 400
    /\ last.out.sent = << >>

(***************************************************************************)
(* Properties of the templates (specification SpecRender).                 *)
(***************************************************************************)
SameRendering(a, b) ==
    /\ a.ok = b.ok
    /\ a.ok => a.v.message = b.v.message

\* C10: rendering is deterministic for each of the five kinds: rendering the
\* same parameters again, at any later time, produces the same message as
\* the rendering in hand, whatever the state of the chain.
C10_RenderingDeterministic ==
    last.op \in RenderOps =>
        SameRendering(RenderTemplate(last.t, last.payer, env), last.out)

\* The rendering the template in flight would give with the testnet node
\* reachable or not, the chain being otherwise the same.
RenderedWithNode(up) == RenderTemplate(last.t, last.payer, [env EXCEPT !.up = up])

\* C11: no template issues a network call: a rendering never fails because
\* of an RPC error, and it is the same whether the node can be reached or
\* not.
C11_RenderingOffline ==
    last.op \in RenderOps =>
        /\ last.out.ok \/ last.out.err # "StakeAccountCreationFailed"
        /\ RenderedWithNode(TRUE) = RenderedWithNode(FALSE)

(***************************************************************************)
(* Properties of the aggregation (specification Spec).                     *)
(***************************************************************************)
\* The aggregation request req with the nonce R written in the place of the
\* aggregated nonce that each of its partial signatures carries.
WithNonce(req, R) ==
    [req EXCEPT !.signatures =
        [i \in 1..Len(@) |->
           PartialSignature_serialize_bs58(
               [PartialSignature_deserialize_bs58(@[i]).v EXCEPT !.R = R])]]

\* The aggregated nonces a session of at most MaxN participants can have.
SessionNonces == { PointMul(r, G) : r \in 1..(MaxN * MaxNonce) }

\* C12: the aggregator never takes the aggregated nonce R from a value
\* supplied with the aggregation request: whatever nonce the partial
\* signatures of the request carry, the aggregation has the same outcome and
\* sends the same transaction, with the sum of the round-1 commitments as R.
C12_NonceNotFromRequest ==
    (last.op = "aggregate_signatures" /\ last.out.sent # << >>) =>
        \A R \in SessionNonces :
            LET node == [send_ok |-> TRUE, confirm_ok |-> TRUE]
                given == aggregate_signatures(last.req, env, node)
                other == aggregate_signatures(WithNonce(last.req, R), env, node)
            IN /\ other.resp.status = given.resp.status
               /\ other.sent = given.sent

(***************************************************************************)
(* Properties of sessions whose participants disagree (specification       *)
(* SpecViews).                                                             *)
(***************************************************************************)
\* The round-1 commitments of the participants listed.
CommitmentsOf(ids) == { round1[ids[i]][1].message_1 : i \in 1..Len(ids) }

\* The aggregation request in flight is the session's, and the view that
\* participant k signed is not the session's: in the key set or in the set
\* of round-1 commitments.
OtherKeysOrCommitments(k) ==
    LET view == session[1].signed[k][1]
    IN \/ Range(view.keys) # Range(session[1].keys)
       \/ CommitmentsOf(view.msgs) # CommitmentsOf(session[1].keys)

\* ... in the payload.
OtherPayload(k) ==
    LET view == session[1].signed[k][1]
    IN view.t # session[1].t \/ view.hash # session[1].hash

\* ... in the recipient, the memo, the blockhash or the number of lamports
\* the amount stands for.
OtherMessage(k) ==
    LET view == session[1].signed[k][1]
    IN \/ view.t.to # session[1].t.to
       \/ view.t.memo # session[1].t.memo
       \/ view.hash # session[1].hash
       \/ sol_to_lamports(view.t.amount) # sol_to_lamports(session[1].t.amount)

AggregationOfViews ==
    /\ last.op = "aggregate_signatures"
    /\ session # None
    /\ DOMAIN session[1] = {"t", "hash", "keys", "signed"}

\* C13 (as stated): if at least one participant computed its partial
\* signature over a different payload, a different key set or a different
\* set of round-1 commitments than the other participants and the
\* aggregator, the aggregation ends in an error and nothing is broadcast.
C13_AnyDisagreementRejected ==
    AggregationOfViews =>
        ((\E k \in Range(session[1].keys) :
              OtherPayload(k) \/ OtherKeysOrCommitments(k))
         => (Rejected /\ SendCalls = {}))

\* C13 (amended): the aggregation ends in InvalidSignature and nothing is
\* broadcast if at least one participant signed a payload that differs in
\* the recipient, the memo, the blockhash or the lamports
\* sol_to_lamports(amount), a different key set or a different set of round-1
\* commitments; when the participants' payloads differ only in amounts that
\* truncate to the same number of lamports, the signature verifies.
C13_MessageDisagreementRejected ==
    AggregationOfViews =>
        IF \E k \in Range(session[1].keys) :
              OtherMessage(k) \/ OtherKeysOrCommitments(k)
        THEN Rejected /\ SendCalls = {}
        ELSE SentVerifies

C13_Witness ==
    /\ AggregationOfViews
    /\ Len(session[1].keys) = MaxN
    /\ \E k \in Range(session[1].keys) :
         /\ session[1].signed[k][1].t.memo # session[1].t.memo
         /\ ~OtherKeysOrCommitments(k)
         /\ \A j \in Range(session[1].keys) \ {k} :
              ~OtherMessage(j) /\ ~OtherKeysOrCommitments(j)
    /\ Rejected
    /\ SendCalls = {}

(***************************************************************************)
(* Properties of single requests (specification SpecRequests).             *)
(***************************************************************************)
Routes == {"aggregate_keys", "agg_send_step_one"} \cup StepTwoOps \cup AggregateOps

\* The errors of decoding, and the field the message of an error names
\* (error.rs: "Failed deserializing keypair: ...", "Failed deserializing
\* <field_name>: ...", "Based58 Error: ...").
DecodingErrors == {"BadBase58", "WrongKeyPair", "DeserializationFailed"}

FieldNamed(resp) ==
    IF resp.error = "WrongKeyPair" THEN "keypair" ELSE resp.field

\* C14: every malformed or wrong-length encoded input makes the operation
\* fail with a decoding error that names the field that was malformed, and
\* for an entry of a list tells the entry: the same text in another entry
\* gets another answer.
C14_MalformedFieldNamed ==
    (last.op \in Routes /\ "bad" \in DOMAIN last /\ last.bad.field # "") =>
        /\ last.out.resp.status = 400
        /\ last.out.resp.error \in DecodingErrors
        /\ last.out.sent = << >>
        /\ FieldNamed(last.out.resp) = last.bad.field
        /\ \A j \in 1..MaxN :
             (last.bad.entry # 0 /\ j # last.bad.entry
              /\ j <= Len(last.base[last.bad.field])) =>
                 Serve(last.op,
                       Corrupt(last.base, last.bad.field, j, last.bad.text),
                       env, [send_ok |-> TRUE, confirm_ok |-> TRUE], 1).resp
                     # last.out.resp

(***************************************************************************)
(* Properties of the codecs (specification SpecCodec).                     *)
(***************************************************************************)
\* C15: for each boundary value kind (public key, keypair, round-1 message,
\* secret state, partial signature), every text that decodes successfully
\* re-encodes to exactly the same text, and every value encodes to a text
\* that decodes back to the same value.
C15_CodecRoundTrip ==
    /\ (last.op = "decode" /\ last.out.ok) =>
           EncodeValue(last.kind, last.out.v) = last.text
    /\ last.op = "encode" =>
           (/\ DecodeText(last.kind, last.text).ok
            /\ DecodeText(last.kind, last.text).v = last.value)

\* A keypair text with a leading zero byte decodes and encodes back.
C15_Witness ==
    /\ last.op = "decode"
    /\ last.kind = "keypair"
    /\ last.out.ok
    /\ last.text[1] = 0
    /\ last.out.v.secret = 0
    /\ EncodeValue(last.kind, last.out.v) = last.text

(***************************************************************************)
(* Properties of concurrent sessions (specification SpecShared).           *)
(***************************************************************************)
\* C16: operations of different sessions share no mutable state: whatever
\* requests of other sessions were served before, the result of the request
\* in flight is the result the same request has when it is executed alone,
\* on the chain as it was at the start, with the same random draw and the
\* same answers of the cluster it broadcasts to.
C16_ResultAsAlone ==
    \A x \in Ids :
        "out" \in DOMAIN last[x] =>
            last[x].out = Serve(last[x].op, last[x].req, FreshChain,
                                last[x].rpc, last[x].r)

(***************************************************************************)
(* Properties of the outcome of a request (specification SpecRequests).    *)
(***************************************************************************)
AggregationCalls ==
    { i \in 1..Len(last.out.calls) :
        last.out.calls[i].op \in
          {"sign_and_broadcast", "spl_sign_and_broadcast",
           "aggregate_stake_signatures_and_broadcast",
           "aggregate_deactivate_stake_signatures_and_broadcast",
           "aggregate_withdraw_stake_signatures_and_broadcast"} }

\* C18: every request ends with exactly one outcome, a success result (HTTP
\* 200) or one error (HTTP 400 with an error message), and nothing is
\* retried: within one request send_transaction is invoked at most once and
\* aggregation is attempted at most once.
C18_OneOutcomeNoRetry ==
    last.op # "idle" =>
        /\ \/ last.out.resp.status = 200 /\ last.out.resp.error = ""
           \/ last.out.resp.status = 400 /\ last.out.resp.error # ""
        /\ Cardinality(SendCalls) <= 1
        /\ Cardinality(AggregationCalls) <= 1

(***************************************************************************)
(* Properties of the rendered transactions (specification SpecTemplates).  *)
(***************************************************************************)
\* The template call in flight has rendered a transaction.
Rendered == last.op \in RenderOps /\ last.out.ok

\* C19 as stated: every transaction rendered by a template has exactly one
\* required signer, the payer/authority key passed to the template, for the
\* native transfer, stake creation and delegation, deactivation, withdrawal,
\* and for the token transfer for every choice of its from and payer
\* arguments.
C19_SoleSigner ==
    Rendered => RequiredSigners(last.out.v.message) = {last.payer}

\* C19, amended: every transaction rendered by a template has exactly one
\* required signer, the payer/authority key passed to the template, for the
\* native transfer, stake creation and delegation, deactivation, withdrawal,
\* and for the token transfer when its from and payer arguments are the
\* same key.
C19_SoleSignerSameKey ==
    (/\ Rendered
     /\ last.op = "create_spl_token_transaction" => last.from = last.payer)
        => RequiredSigners(last.out.v.message) = {last.payer}

\* A token transfer rendered for one key as owner and payer, with two
\* account-creation instructions and a memo.
C19_Witness ==
    /\ Rendered
    /\ last.op = "create_spl_token_transaction"
    /\ last.from = last.payer
    /\ Len(last.out.v.message.instructions) = 4
    /\ RequiredSigners(last.out.v.message) = {last.payer}

\* The places of the instructions of a rendered message that create the
\* associated token account of a wallet, and of its token transfers.
CreatesOf(msg, wallet, mint) ==
    { i \in 1..Len(msg.instructions) :
        /\ msg.instructions[i].program_id = ATA_PROGRAM
        /\ msg.instructions[i].accounts[2].pubkey
             = get_associated_token_address(wallet, mint)
        /\ msg.instructions[i].accounts[3].pubkey = wallet }

TransfersOf(msg) ==
    { i \in 1..Len(msg.instructions) :
        /\ msg.instructions[i].program_id = TOKEN_PROGRAM
        /\ msg.instructions[i].data[1] = "Transfer" }

\* C20: create_spl_token_transaction includes an instruction that creates
\* the recipient's associated token account whenever that account is absent
\* on chain (when the template looks it up), and that instruction precedes
\* the token transfer instruction in the rendered message.
C20_RecipientAccountCreatedFirst ==
    (/\ Rendered
     /\ last.op = "create_spl_token_transaction"
     /\ get_associated_token_address(last.t.to, last.t.token_mint)
          \notin Later(last.chain).accounts)
        => LET msg == last.out.v.message
           IN /\ TransfersOf(msg) # {}
              /\ \A j \in TransfersOf(msg) :
                   \E i \in CreatesOf(msg, last.t.to, last.t.token_mint) : i < j

\* The node answers both lookups, the sender's token account exists and the
\* recipient's does not: the message is the creation followed by the
\* transfer.
C20_Witness ==
    /\ Rendered
    /\ last.op = "create_spl_token_transaction"
    /\ last.chain.up
    /\ Later(last.chain).up
    /\ get_associated_token_address(last.from, last.t.token_mint)
         \in last.chain.accounts
    /\ get_associated_token_address(last.t.to, last.t.token_mint)
         \notin Later(last.chain).accounts
    /\ CreatesOf(last.out.v.message, last.t.to, last.t.token_mint) = {1}
    /\ TransfersOf(last.out.v.message) = {2}

\* The token-template call in flight has rendered a message.
RenderedToken == Rendered /\ last.op = "create_spl_token_transaction"

\* The places of the account-creation instructions of a rendered message.
Creations(msg) ==
    { i \in 1..Len(msg.instructions) :
        msg.instructions[i].program_id = ATA_PROGRAM }

\* The node answers the lookup and finds the account.
Found(chain, address) == chain.up /\ address \in chain.accounts

\* C21: a token-transfer message rendered by create_spl_token_transaction
\* never contains two account-creation instructions for the same associated
\* token account, and contains no account-creation instruction for the
\* recipient when the recipient's associated token account already exists
\* (at both lookups of the call), whatever the existence state of the
\* sender's account.
C21_NoSpuriousCreation ==
    RenderedToken =>
        LET msg == last.out.v.message
            to_ata == get_associated_token_address(last.t.to, last.t.token_mint)
        IN /\ \A i, j \in Creations(msg) :
                msg.instructions[i].accounts[2].pubkey
                  = msg.instructions[j].accounts[2].pubkey => i = j
           /\ (Found(last.chain, to_ata) /\ Found(Later(last.chain), to_ata))
                => CreatesOf(msg, last.t.to, last.t.token_mint) = {}

\* The token template on the arguments of the call in flight and a chain.
RenderedTokenOn(chain) ==
    create_spl_token_transaction(
        get_token_amount_with_decimals(last.t.amount, last.t.decimals),
        last.from, last.t.to, last.t.token_mint, last.payer, last.t.memo,
        last.t.decimals, chain)

\* The chain of a call with the node answering each of its lookups.
Answering(chain) ==
    During([chain EXCEPT !.up = TRUE], [Later(chain) EXCEPT !.up = TRUE])

\* C22: when the lookup of an associated token account fails for a reason
\* other than the account being absent (the node does not answer),
\* create_spl_token_transaction does not treat the account as absent: it
\* returns an error or renders the instructions it would render with the
\* true existence state.
C22_FailedLookupNotAbsent ==
    (/\ last.op = "create_spl_token_transaction"
     /\ ~last.chain.up \/ ~Later(last.chain).up)
        => \/ ~last.out.ok
           \/ last.out = RenderedTokenOn(Answering(last.chain))

(***************************************************************************)
(* Properties of the decoding order (specification SpecDecoding).          *)
(***************************************************************************)
\* The order in which the handlers decode the fields of a request.
DecodeOrder ==
    << "keypair", "to", "token_mint", "validator_vote_accont", "stake_account",
       "destination", "recent_block_hash", "keys", "first_messages",
       "signatures", "secret_state" >>

PlaceOf(field) == CHOOSE i \in 1..Len(DecodeOrder) : DecodeOrder[i] = field

\* Of the two bad fields of the request in flight, the one decoded first.
FirstBad ==
    IF PlaceOf(last.bads[1].field) < PlaceOf(last.bads[2].field)
    THEN last.bads[1] ELSE last.bads[2]

\* C27: in every round-2 and aggregation handler the request fields are
\* decoded in a fixed order (keypair, then addresses, then recent block
\* hash, then the key list, then round-1 messages or partial signatures,
\* then the secret state); the first field that fails to decode determines
\* the error returned, and the signing or aggregation routine is invoked
\* only when every field decoded.
C27_FirstBadFieldDecides ==
    (last.op \in StepTwoOps \cup AggregateOps /\ "bads" \in DOMAIN last) =>
        /\ last.out.resp.status = 400
        /\ last.out.resp
             = Serve(last.op,
                     Corrupt(last.base, FirstBad.field, FirstBad.entry,
                             FirstBad.text),
                     env, [send_ok |-> TRUE, confirm_ok |-> TRUE], 1).resp
        /\ last.out.resp.error \in DecodingErrors
        /\ last.out.calls = << >>
        /\ last.out.sent = << >>

\* A round-2 request whose recipient and round-1 messages are both bad is
\* answered with the recipient's error.
C27_Witness ==
    /\ last.op = "agg_send_step_two"
    /\ "bads" \in DOMAIN last
    /\ last.bads[1].field = "first_messages"
    /\ last.bads[2].field = "to"
    /\ last.out.resp.error = "BadBase58"
    /\ last.out.calls = << >>

(***************************************************************************)
(* Properties of the native transfer template (specification               *)
(* SpecTemplates).                                                         *)
(***************************************************************************)
\* The native template on the arguments of the call in flight and a memo.
NativeWithMemo(memo) ==
    create_unsigned_transaction(last.t.amount, last.t.to, memo, last.payer)

\* C29: create_unsigned_transaction renders a message with the payer as fee
\* payer that contains exactly the transfer instruction when no memo is
\* given, and exactly the transfer instruction followed by one memo
\* instruction carrying the memo bytes when a memo is given; a present but
\* empty memo and an absent memo render different messages.
C29_MemoRendered ==
    (last.op = "create_unsigned_transaction" /\ last.out.ok) =>
        LET msg == last.out.v.message
            ins == msg.instructions
        IN /\ msg.payer = last.payer
           /\ Len(ins) = IF last.t.memo = None THEN 1 ELSE 2
           /\ ins[1].program_id = SYSTEM_PROGRAM
           /\ ins[1].data = << "Transfer", sol_to_lamports(last.t.amount) >>
           /\ ins[1].accounts[1].pubkey = last.payer
           /\ ins[1].accounts[2].pubkey = last.t.to
           /\ last.t.memo # None =>
                /\ ins[2].program_id = MEMO_PROGRAM
                /\ ins[2].accounts = << >>
                /\ ins[2].data = last.t.memo[1]
           /\ NativeWithMemo(None).message # NativeWithMemo(Some(<< >>)).message

\* A transfer rendered with a present but empty memo: two instructions, the
\* second a memo instruction without bytes.
C29_Witness ==
    /\ last.op = "create_unsigned_transaction"
    /\ last.out.ok
    /\ last.t.memo = Some(<< >>)
    /\ Len(last.out.v.message.instructions) = 2
    /\ last.out.v.message.instructions[2].data = << >>

(***************************************************************************)
(* Properties of the stake template (specification SpecTemplates).         *)
(***************************************************************************)
\* The stake-template call in flight has rendered a message.
RenderedStake == Rendered /\ last.op = "create_stake_account_transaction"

\* C24: create_stake_account_transaction renders exactly three instructions
\* in the order create-account-with-seed, initialize, delegate; all three
\* refer to the one stake account address derived from (payer, seed, stake
\* program); staker and withdrawer are both the payer with the default
\* lockup; and the account is funded with exactly the rent-exempt minimum
\* plus stake_amount lamports.
C24_StakeMessage ==
    RenderedStake =>
        LET ins == last.out.v.message.instructions
            address == create_with_seed(last.payer, last.t.seed, STAKE_PROGRAM)
        IN /\ address.ok
           /\ Len(ins) = 3
           /\ ins[1].program_id = SYSTEM_PROGRAM
           /\ ins[1].data = << "CreateAccountWithSeed", last.payer,
                               SeedCode(last.t.seed),
                               last.chain.rent + last.t.stake_amount,
                               STAKE_SPACE, STAKE_PROGRAM >>
           /\ ins[1].accounts[1].pubkey = last.payer
           /\ ins[1].accounts[2].pubkey = address.v
           /\ ins[2].program_id = STAKE_PROGRAM
           /\ ins[2].data = << "Initialize", last.payer, last.payer, 0, 0, 0 >>
           /\ ins[2].accounts[1].pubkey = address.v
           /\ ins[3].program_id = STAKE_PROGRAM
           /\ ins[3].data = << "DelegateStake" >>
           /\ ins[3].accounts[1].pubkey = address.v
           /\ ins[3].accounts[2].pubkey = last.t.vote_account
           /\ ins[3].accounts[6] =
                [pubkey |-> last.payer, is_signer |-> TRUE, is_writable |-> FALSE]

(***************************************************************************)
(* Properties of the funding of a stake account (specification             *)
(* SpecAmounts).                                                           *)
(***************************************************************************)
\* C25: for every 64-bit stake_amount and every rent value returned by the
\* chain, the lamports funded to the new stake account equal the
\* mathematical sum rent + stake_amount: the unsigned 64-bit addition never
\* wraps to a smaller value and never aborts the operation.
C25_FundingIsTheSum ==
    (/\ last.op = "create_stake_account_transaction"
     /\ last.chain.up
     /\ create_with_seed(last.payer, last.t.seed, STAKE_PROGRAM).ok)
        => /\ last.out.ok
           /\ last.out.v.message.instructions[1].data[4]
                = last.chain.rent + last.t.stake_amount

(***************************************************************************)
(* Properties of the broadcasting handlers (specification SpecBroadcast).  *)
(***************************************************************************)
\* A broadcasting request is in flight with its response.
Served == last.op \in BroadcastOps

\* The places of the calls of a kind among the calls of the request.
CallsOf(op) ==
    { i \in 1..Len(last.out.calls) : last.out.calls[i].op = op }

\* The places of the calls to a node of a cluster.
ChainQueries ==
    { i \in 1..Len(last.out.calls) : last.out.calls[i].net # "" }

\* C23: every chain query made while serving a request, including those made
\* inside the transaction templates, goes to the cluster selected by that
\* request's net field.
C23_QueriesGoToRequestCluster ==
    Served => \A i \in ChainQueries : last.out.calls[i].net = last.req.net

\* C26: an invalid stake-account seed makes create_stake_account_transaction
\* fail with InvalidStakeAccountSeed before any chain query is issued;
\* consequently, in the single-signer stake handler the stake account address
\* reported in the response equals the address used in the broadcast
\* transaction and the handler's later 'Invalid stake account seed' branch
\* is never reached.
C26_SeedCheckedFirst ==
    last.op = "stake_account" =>
        /\ ~create_with_seed(last.payer, last.req.seed, STAKE_PROGRAM).ok =>
             /\ last.out.resp.status = 400
             /\ last.out.resp.error = "InvalidStakeAccountSeed"
             /\ ChainQueries = {}
             /\ last.out.sent = << >>
        /\ last.out.resp.error # "Invalid stake account seed"
        /\ last.out.resp.status = 200 =>
             /\ Len(last.out.sent) = 1
             /\ \A i \in 1..3 :
                  LET ins == last.out.sent[1].message.instructions[i]
                  IN pubkey_to_string(ins.accounts[IF i = 1 THEN 2 ELSE 1].pubkey)
                       = last.out.resp.body.stake_account_address

\* A stake request with a seed that is too long, posted while the testnet
\* node is down: refused for the seed, without a query.
C26_Witness ==
    /\ last.op = "stake_account"
    /\ Len(last.req.seed) > MAX_SEED_LEN
    /\ ~last.chain.up
    /\ last.out.resp.error = "InvalidStakeAccountSeed"
    /\ last.out.calls = << >>

\* C28: in every broadcasting handler the steps happen in the order
\* build/aggregate transaction, send_transaction, confirm, respond: a
\* success response carrying a transaction id is returned only after both
\* the send and the confirmation succeeded, a failed send is never followed
\* by a confirmation attempt, and a failed confirmation yields an error
\* response although the transaction was already sent.
C28_SendConfirmRespond ==
    Served =>
        LET calls == last.out.calls
            sends == CallsOf("send_transaction")
            confirms == CallsOf("confirm_transaction")
        IN /\ Cardinality(sends) <= 1
           /\ Cardinality(confirms) <= 1
           /\ \A i \in sends, j \in 1..Len(calls) :
                calls[j].op \notin {"send_transaction", "confirm_transaction"}
                  => j < i
           /\ \A j \in confirms : j - 1 \in sends
           /\ last.out.resp.status = 200 =>
                /\ "transaction_id" \in DOMAIN last.out.resp.body
                /\ sends # {} /\ confirms # {}
                /\ last.rpc.send_ok /\ last.rpc.confirm_ok
                /\ Len(last.out.sent) = 1
                /\ last.out.resp.body.transaction_id
                     = last.out.sent[1].signatures[1]
           /\ (sends # {} /\ ~last.rpc.send_ok) =>
                /\ confirms = {}
                /\ last.out.resp.status = 400
                /\ last.out.resp.error = "SendTransactionFailed"
           /\ (sends # {} /\ last.rpc.send_ok /\ ~last.rpc.confirm_ok) =>
                /\ confirms # {}
                /\ last.out.resp.status = 400
                /\ last.out.resp.error = "ConfirmingTransactionFailed"
                /\ Len(last.out.sent) = 1

\* A single-signer transfer whose send succeeded and whose confirmation
\* failed: an error response, the transaction sent.
C28_Witness ==
    /\ last.op = "send_single"
    /\ last.rpc.send_ok /\ ~last.rpc.confirm_ok
    /\ last.out.resp.error = "ConfirmingTransactionFailed"
    /\ Len(last.out.sent) = 1
    /\ CallsOf("confirm_transaction") = {3}

====
